---- MODULE Spec2Model ----
(***************************************************************************)
(* Hybrid extraction orchestrator of medextract-ai: the merge engine, the  *)
(* per-document pipeline (_process_single_file) with its chunk dispatcher, *)
(* modelled from src/src/batch_processor.py, src/src/regex_extractor.py,   *)
(* src/src/pdf_processor.py and src/src/ai_extractor.py.                   *)
(*                                                                         *)
(* Python values: a str is a sequence of one-character strings (a number   *)
(* or a flag word is kept as one atom, str() of it is its own text); None  *)
(* is one reserved sequence.  A dict is the sequence of its <<key, value>> *)
(* items in insertion order.                                               *)
(***************************************************************************)
EXTENDS Integers, Sequences, FiniteSets, TLC

VARIABLES
    patient,               \* the PatientRecord dict being built
    source,                \* argument of the latest _merge_into_patient call (SpecMerge)
    nmerge,                \* number of merge calls made (SpecMerge)
    pc,                    \* position of _process_single_file
    file_status,           \* the FileStatus of the document
    pages,                 \* pdf_result.pages: the PageResult objects
    extraction_note,       \* the notes accumulated so far, in order
    page_i,                \* index of the Phase 1 loop over the pages
    pending_ai,            \* <<page index, mode>> of the pages queued for Phase 2
    null_fields_snapshot,  \* the document-wide snapshot of null fields
    chunks,                \* the chunks built from pending_ai
    chunk_st,              \* per chunk: "new", "inflight" or "done"
    chunk_results,         \* per chunk: what asyncio.gather collected
    calls,                 \* the extract_with_ai calls issued, in order
    merge_i,               \* index of the Step 4 loop over chunk_results
    openai_calls,          \* rows written by db_insert_openai_call
    record,                \* the record _process_single_file returns
    _ai_semaphore,         \* free permits of the process-wide remote-call semaphore
    aicall,                \* per caller: the state of its extract_with_ai call
    job,                   \* the Job of the batch and whether _jobs holds it
    db_job,                \* the row of the batch in the jobs table
    db_files,              \* the rows of the batch in the job_files table, in id order
    job_files,             \* job.files: one FileStatus per document
    records,               \* run_batch's records list
    semaphore,             \* free slots of run_batch's worker semaphore
    task,                  \* per document: position of its process_one task, what the
                           \* document is while its pipeline runs, whether the pipeline raised
    batch_pc,              \* position of run_batch
    response               \* the answer to a download request, until it is sent

mergeVars == <<source, nmerge>>

pipeVars == <<pc, file_status, pages, extraction_note, page_i, pending_ai,
              null_fields_snapshot, chunks, chunk_st, chunk_results, calls,
              merge_i, openai_calls, record>>

remoteVars == <<_ai_semaphore, aicall>>

batchVars == <<job, db_job, db_files, job_files, records, semaphore, task, batch_pc,
               response>>

vars == <<patient, mergeVars, pipeVars, remoteVars, batchVars>>

\* ---------------------------------------------------------------- bounds
MaxMerges == 3

\* pages of a document
MaxPages == 4

\* ---------------------------------------------------------------- values
None == <<"<None>">>

RECURSIVE LStrip(_)
LStrip(s) == IF s # <<>> /\ Head(s) = " " THEN LStrip(Tail(s)) ELSE s

RECURSIVE RStrip(_)
RStrip(s) == IF s # <<>> /\ s[Len(s)] = " " THEN RStrip(SubSeq(s, 1, Len(s) - 1)) ELSE s

\* str.strip()
Strip(s) == RStrip(LStrip(s))

\* str.lower() on the characters the model uses
LowerChar(c) ==
    CASE c = "O" -> "o" [] c = "K" -> "k" [] c = "N" -> "n"
      [] c = "P" -> "p" [] c = "D" -> "d" [] c = "F" -> "f" [] OTHER -> c

Lower(s) == [i \in 1..Len(s) |-> LowerChar(s[i])]

\* ---------------------------------------------------------------- dicts
HasKey(d, k) == \E i \in 1..Len(d) : d[i][1] = k

KeyIndex(d, k) == CHOOSE i \in 1..Len(d) : d[i][1] = k

\* dict.get(k) with default None
Get(d, k) == IF HasKey(d, k) THEN d[KeyIndex(d, k)][2] ELSE None

\* d[k] = v
Put(d, k, v) ==
    IF HasKey(d, k) THEN [d EXCEPT ![KeyIndex(d, k)] = <<k, v>>]
    ELSE Append(d, <<k, v>>)

Keys(d) == {d[i][1] : i \in 1..Len(d)}

\* ---------------------------------------------------------------- columns
\* The canonical columns, restricted to one representative of each class:
\* identity, numeric with paired flag (two of them), narrative with alias,
\* narrative presence field, narrative free text, meta.
MASTER_COLUMNS ==
    << "PatientName",
       "Haemoglobin", "Haemoglobin_Flag",
       "TLC", "TLC_Flag",
       "Urine_Colour",
       "PFT",
       "Remarks",
       "Extraction_Note" >>

\* col.endswith("_Flag")
EndsWithFlag(col) == col \in {"Haemoglobin_Flag", "TLC_Flag"}

\* f"{field_name}_Flag"
FlagCol(field_name) ==
    CASE field_name = "Haemoglobin" -> "Haemoglobin_Flag"
      [] field_name = "TLC"         -> "TLC_Flag"
      [] OTHER                      -> "<" \o field_name \o "_Flag>"

FLAG_FIELDS == {MASTER_COLUMNS[i] : i \in {j \in 1..Len(MASTER_COLUMNS) : EndsWithFlag(MASTER_COLUMNS[j])}}

_NARRATIVE_FIELDS == {"PFT", "Remarks", "Urine_Colour"}

\* ---------------------------------------------------------------- merge
_empty_patient == [i \in 1..Len(MASTER_COLUMNS) |-> <<MASTER_COLUMNS[i], None>>]

\* f"{existing} | {value}"
PipeJoin(existing, value) == existing \o <<" ", "|", " ">> \o value

\* narrative branch of _merge_into_patient
MergeNarrative(p, field_name, value) ==
    LET existing == Get(p, field_name) IN
    IF existing = None THEN Put(p, field_name, value)
    ELSE IF Strip(existing) # Strip(value) THEN Put(p, field_name, PipeJoin(existing, value))
    ELSE p

FirstWriterOverwrites(p, field_name, value) == Put(p, field_name, value)

\* every other field: first writer wins
FirstWriterWins(p, field_name, value) ==
    IF Get(p, field_name) = None THEN Put(p, field_name, value) ELSE p

\* the paired _Flag propagated alongside its parent field
PropagateFlag(p, src, field_name) ==
    LET flag_col == FlagCol(field_name) IN
    IF flag_col \in FLAG_FIELDS
    THEN LET flag_val == Get(src, flag_col) IN
         IF flag_val # None /\ Get(p, flag_col) = None
         THEN Put(p, flag_col, flag_val)
         ELSE p
    ELSE p

\* one iteration of the loop over source.items()
MergeItem(p, src, field_name, value) ==
    IF value = None THEN p
    ELSE LET p1 == IF field_name \in _NARRATIVE_FIELDS
                   THEN MergeNarrative(p, field_name, value)
                   ELSE FirstWriterWins(p, field_name, value)
         IN PropagateFlag(p1, src, field_name)

RECURSIVE MergeFrom(_, _, _)
MergeFrom(p, src, i) ==
    IF i > Len(src) THEN p
    ELSE MergeFrom(MergeItem(p, src, src[i][1], src[i][2]), src, i + 1)

_merge_into_patient(p, src) == MergeFrom(p, src, 1)

\* ---------------------------------------------------------------- deterministic extractor
\* A page text is the sequence of its lines.  The patterns of the extractor
\* are tabulated on the lines the model uses: the column whose pattern
\* matches the line, the captured value, the inline flag token.
LineField(line) ==
    CASE line = "Patient Name: Ravi Kumar" -> "PatientName"
      [] line = "Haemoglobin: 12.6 L"      -> "Haemoglobin"
      [] line = "Haemoglobin: 13.0"        -> "Haemoglobin"
      [] line = "TLC: 8200"                -> "TLC"
      [] OTHER                             -> "<no match>"

LineValue(line) ==
    CASE line = "Patient Name: Ravi Kumar" -> <<"Ravi Kumar">>
      [] line = "Haemoglobin: 12.6 L"      -> <<"12.6">>
      [] line = "Haemoglobin: 13.0"        -> <<"13.0">>
      [] line = "TLC: 8200"                -> <<"8200.0">>
      [] OTHER                             -> None

\* _INLINE_FLAG on the matched line: the flag token, "" when there is none
LineInlineFlag(line) == IF line = "Haemoglobin: 12.6 L" THEN "L" ELSE ""

\* re.fullmatch(r"(H|L|High|Low|...)") on a line
StandaloneFlag(line) == IF line \in {"H", "L", "High", "Low"} THEN line ELSE ""

\* regex_extractor._normalize_flag
RegexNormalizeFlag(raw) ==
    IF raw \in {"H", "High", "HIGH"} THEN <<"HIGH">>
    ELSE IF raw \in {"L", "Low", "LOW"} THEN <<"LOW">>
    ELSE None

\* pattern.search(text): the first line the pattern of `field` matches, 0 if none
FirstMatch(text, field) ==
    IF \E i \in 1..Len(text) : LineField(text[i]) = field
    THEN CHOOSE i \in 1..Len(text) :
             /\ LineField(text[i]) = field
             /\ \A j \in 1..(i - 1) : LineField(text[j]) # field
    ELSE 0

\* <<value, flag>>
_extract_value_and_flag(text, field) ==
    LET i == FirstMatch(text, field) IN
    IF i = 0 THEN <<None, None>>
    ELSE IF LineInlineFlag(text[i]) # ""
         THEN <<LineValue(text[i]), RegexNormalizeFlag(LineInlineFlag(text[i]))>>
    ELSE IF i < Len(text) /\ StandaloneFlag(text[i + 1]) # ""
         THEN <<LineValue(text[i]), RegexNormalizeFlag(StandaloneFlag(text[i + 1]))>>
    ELSE <<LineValue(text[i]), None>>

\* the numeric patterns of the modelled columns, in pattern order
_NUMERIC_PATTERNS == <<"Haemoglobin", "TLC">>

\* every key is present, unmatched columns are None; keys in the order the
\* extractor inserts them
extract_with_regex(page_text) ==
    LET hb  == _extract_value_and_flag(page_text, "Haemoglobin")
        tlc == _extract_value_and_flag(page_text, "TLC")
        nm  == FirstMatch(page_text, "PatientName")
    IN << <<"Haemoglobin", hb[1]>>, <<"Haemoglobin_Flag", hb[2]>>,
          <<"TLC", tlc[1]>>, <<"TLC_Flag", tlc[2]>>,
          <<"PatientName", IF nm = 0 THEN None ELSE LineValue(page_text[nm])>>,
          <<"Remarks", None>>, <<"Urine_Colour", None>>, <<"PFT", None>> >>

count_regex_fields(regex_result) ==
    Cardinality({i \in 1..Len(regex_result) :
                    ~EndsWithFlag(regex_result[i][1]) /\ regex_result[i][2] # None})

\* page texts of the model
T_three == <<"Patient Name: Ravi Kumar", "Haemoglobin: 12.6 L", "TLC: 8200">>
T_two   == <<"Haemoglobin: 13.0", "TLC: 8200", "H">>
T_one   == <<"Haemoglobin: 13.0", "urine colour yellow">>
T_zero  == <<"report follows">>
T_tmt   == <<"tmt">>

\* ---------------------------------------------------------------- remote responses
\* A remote response is any JSON object: the client returns json.loads(...)
\* unfiltered when it is a dict.
Absent == <<"<absent>">>

JsonKeys == <<"Haemoglobin", "Haemoglobin_Flag", "Remarks">>

JsonValues(k) ==
    CASE k = "Haemoglobin"      -> {Absent, None, <<"14.1">>}
      [] k = "Haemoglobin_Flag" -> {Absent, <<"HIGH">>}
      [] k = "Remarks"          -> {Absent, <<"o", "k">>, <<"O", "K">>, <<"o", "k", " ">>, <<"n", "o">>}

RECURSIVE DictOf(_, _)
DictOf(g, keys) ==
    IF keys = <<>> THEN <<>>
    ELSE IF g[Head(keys)] = Absent THEN DictOf(g, Tail(keys))
    ELSE <<<<Head(keys), g[Head(keys)]>>>> \o DictOf(g, Tail(keys))

Reverse(s) == [i \in 1..Len(s) |-> s[Len(s) + 1 - i]]

JsonChoices == {g \in [{"Haemoglobin", "Haemoglobin_Flag", "Remarks"} ->
                          UNION {JsonValues(JsonKeys[i]) : i \in 1..Len(JsonKeys)}] :
                   \A i \in 1..Len(JsonKeys) : g[JsonKeys[i]] \in JsonValues(JsonKeys[i])}

RemoteObjects == {DictOf(g, JsonKeys) : g \in JsonChoices}
                 \cup {DictOf(g, Reverse(JsonKeys)) : g \in JsonChoices}

RegexOutputs == {extract_with_regex(t) : t \in {T_three, T_two, T_one, T_zero}}

TierOutputs == RegexOutputs \cup RemoteObjects

\* ---------------------------------------------------------------- page classifier
TEXT_MODE_MIN_CHARS == 100

GRAPH_PAGE_MAX_CHARS == 200

\* len() of the lines the model uses; "<body>" stands for 150 characters of
\* report text that no pattern and no alias matches
LineLen(line) ==
    CASE line = "<body>"                   -> 150
      [] line = "Patient Name: Ravi Kumar" -> 24
      [] line = "Haemoglobin: 12.6 L"      -> 19
      [] line = "Haemoglobin: 13.0"        -> 17
      [] line = "TLC: 8200"                -> 9
      [] line = "urine colour yellow"      -> 19
      [] line = "haemoglobin awaited"      -> 19
      [] line = "report follows"           -> 14
      [] line = "waveform"                 -> 8
      [] OTHER                             -> 3

\* len(stripped_text): the lines and the newlines between them
RECURSIVE TextLen(_)
TextLen(text) ==
    IF text = <<>> THEN 0
    ELSE LineLen(Head(text)) + (IF Len(text) > 1 THEN 1 ELSE 0) + TextLen(Tail(text))

\* detect_graph_page: <<is_graph, graph_type>>
detect_graph_page(text) ==
    IF \E i \in 1..Len(text) : text[i] = "ecg" THEN <<TRUE, "ECG">>
    ELSE IF \E i \in 1..Len(text) : text[i] = "tmt" THEN <<TRUE, "TMT">>
    ELSE IF \E i \in 1..Len(text) : text[i] = "waveform" THEN <<TRUE, "GRAPH">>
    ELSE <<FALSE, "None">>

\* What the parsing, rendering and recognition libraries give for one page:
\* the page text, whether the renderer returned the page's image, and what
\* local recognition read on it.
RawPage(raw_text, rendered, ocr_text, ocr_above_threshold) ==
    [raw_text |-> raw_text, rendered |-> rendered,
     ocr_text |-> ocr_text, ocr_above_threshold |-> ocr_above_threshold]

RawPages ==
    { RawPage(T_tmt, FALSE, <<>>, FALSE),
      RawPage(<<"<body>">> \o T_three, TRUE, <<>>, FALSE),
      RawPage(<<"<body>">> \o T_one, TRUE, <<>>, FALSE),
      RawPage(<<>>, TRUE, T_three, TRUE),
      RawPage(<<>>, TRUE, T_three, FALSE),
      RawPage(<<>>, FALSE, <<>>, FALSE) }

PageModeTextFirst(text_length, is_graph) ==
    IF text_length >= TEXT_MODE_MIN_CHARS THEN "text"
    ELSE IF text_length < GRAPH_PAGE_MAX_CHARS /\ is_graph THEN "graph"
    ELSE "ocr"

\* the three branches of Pass 1, in the order the code tests them
PageMode(text_length, is_graph) ==
    IF text_length < GRAPH_PAGE_MAX_CHARS /\ is_graph THEN "graph"
    ELSE IF text_length >= TEXT_MODE_MIN_CHARS THEN "text"
    ELSE "ocr"

\* Pass 1 and Pass 2 of process_pdf for one page
PageResult(page_number, raw) ==
    LET text_length == TextLen(raw.raw_text)
        g           == detect_graph_page(raw.raw_text)
        mode        == PageMode(text_length, g[1])
        needs_render == mode # "graph"
        has_image    == needs_render /\ raw.rendered
    IN [ page_number         |-> page_number,
         mode                |-> mode,
         raw_text            |-> raw.raw_text,
         text_length         |-> text_length,
         image_base64        |-> has_image,
         is_graph_page       |-> mode = "graph",
         graph_type          |-> IF mode = "graph" THEN g[2] ELSE "None",
         handler             |-> CASE mode = "graph" -> "GRAPH_PAGE"
                                   [] mode = "text"  -> "None"
                                   [] mode = "ocr"   -> "CLAUDE_HANDLED",
         ocr_text            |-> IF mode = "ocr" /\ has_image THEN raw.ocr_text ELSE <<>>,
         ocr_above_threshold |-> mode = "ocr" /\ has_image /\ raw.ocr_above_threshold ]

\* process_pdf on a parsed document: the pages and partial_ocr
process_pdf(raws) ==
    LET prs == [i \in 1..Len(raws) |-> PageResult(i, raws[i])] IN
    [ pages       |-> prs,
      partial_ocr |-> \E i \in 1..Len(prs) : prs[i].mode = "ocr" /\ ~prs[i].image_base64 ]

\* ---------------------------------------------------------------- record helpers
\* value columns: not a flag, not a meta column
_ALL_VALUE_FIELDS ==
    SelectSeq(MASTER_COLUMNS,
              LAMBDA col : ~EndsWithFlag(col) /\ col \notin {"Extraction_Note", "Data_Quality"})

AllValueFieldsNull(p) == _ALL_VALUE_FIELDS

_get_null_fields(p) == SelectSeq(_ALL_VALUE_FIELDS, LAMBDA col : Get(p, col) = None)

MarkEcgInRemarks(p, graph_type) ==
    LET col == CASE graph_type = "ECG" -> "Remarks"
                 [] graph_type = "TMT" -> "PFT"
                 [] OTHER              -> ""
    IN IF col # "" /\ Get(p, col) = None THEN Put(p, col, <<"PRESENT">>) ELSE p

_mark_graph_present(p, graph_type) ==
    LET col == CASE graph_type = "AUDIOGRAM"        -> "AUDIOMETRY"
                 [] graph_type = "TMT"              -> "PFT"
                 [] graph_type = "SPIROMETRY_CURVE" -> "PFT"
                 [] OTHER                           -> ""
    IN IF col # "" /\ Get(p, col) = None THEN Put(p, col, <<"PRESENT">>) ELSE p

Range(s) == {s[i] : i \in 1..Len(s)}

\* ---------------------------------------------------------------- chunk dispatcher
_IMAGE_CHUNK_SIZE == 3

_TEXT_CHUNK_SIZE == 4

_ALWAYS_KEEP_FIELDS == {"PFT", "Remarks", "PatientName"}

\* the columns _FIELD_ALIASES has an entry for
AliasedFields == {"Haemoglobin", "TLC", "Urine_Colour"}

\* the columns one of whose aliases occurs in line.lower()
LineAliases(line) ==
    CASE line = "Haemoglobin: 12.6 L" -> {"Haemoglobin"}
      [] line = "Haemoglobin: 13.0"   -> {"Haemoglobin"}
      [] line = "haemoglobin awaited" -> {"Haemoglobin"}
      [] line = "TLC: 8200"           -> {"TLC"}
      [] line = "urine colour yellow" -> {"Urine_Colour"}
      [] OTHER                        -> {}

\* any(alias in combined_text for alias in aliases), combined_text being the
\* texts of the chunk's pages joined
AliasInChunk(field_name, chunk_pages) ==
    \E i \in 1..Len(chunk_pages) :
        \E j \in 1..Len(pages[chunk_pages[i]].raw_text) :
            field_name \in LineAliases(pages[chunk_pages[i]].raw_text[j])

PruneImageToo(null_fields, chunk_pages, mode) ==
    SelectSeq(null_fields,
              LAMBDA field_name :
                  \/ field_name \in _ALWAYS_KEEP_FIELDS
                  \/ field_name \notin AliasedFields
                  \/ AliasInChunk(field_name, chunk_pages))

_prune_null_fields_for_chunk(null_fields, chunk_pages, mode) ==
    IF mode = "image" THEN null_fields
    ELSE SelectSeq(null_fields,
                   LAMBDA field_name :
                       \/ field_name \in _ALWAYS_KEEP_FIELDS
                       \/ field_name \notin AliasedFields
                       \/ AliasInChunk(field_name, chunk_pages))

Min(a, b) == IF a < b THEN a ELSE b

\* for i in range(0, len(ps), size): chunks.append((ps[i : i + size], mode))
RECURSIVE ChunksOf(_, _, _)
ChunksOf(ps, size, mode) ==
    IF ps = <<>> THEN <<>>
    ELSE <<[pages |-> SubSeq(ps, 1, Min(size, Len(ps))), mode |-> mode]>>
         \o ChunksOf(SubSeq(ps, Min(size, Len(ps)) + 1, Len(ps)), size, mode)

PagesAnyMode(pending, mode) == [i \in 1..Len(pending) |-> pending[i][1]]

\* [p for p, m in pending_ai if m == mode]
PagesOfMode(pending, mode) ==
    LET sel == SelectSeq(pending, LAMBDA e : e[2] = mode) IN
    [i \in 1..Len(sel) |-> sel[i][1]]

OnePagePerChunk(pending, image_chunk_size, text_chunk_size) ==
    ChunksOf(PagesOfMode(pending, "image"), 1, "image")
    \o ChunksOf(PagesOfMode(pending, "text"), 1, "text")

_build_chunks(pending, image_chunk_size, text_chunk_size) ==
    ChunksOf(PagesOfMode(pending, "image"), image_chunk_size, "image")
    \o ChunksOf(PagesOfMode(pending, "text"), text_chunk_size, "text")

\* ---------------------------------------------------------------- remote tier
\* What one extract_with_ai call gives its caller: a returned tuple
\* (data, note, input units, output units), or an exception that
\* asyncio.gather(return_exceptions=True) collects in place of the tuple.
AIReturn(data, note, inp, out) ==
    [raised |-> FALSE, ai_result |-> data, ai_note |-> note, inp_tok |-> inp, out_tok |-> out]

AIRaised == [raised |-> TRUE, ai_result |-> <<>>, ai_note |-> <<>>, inp_tok |-> 0, out_tok |-> 0]

AIResponses ==
    { << <<"Haemoglobin", <<"14.1">>>>, <<"Haemoglobin_Flag", <<"HIGH">>>>,
         <<"Remarks", <<"o", "k">>>> >>,
      <<>> }

AIOutcomes ==
    {AIReturn(d, <<>>, 5, 2) : d \in AIResponses}
    \cup {AIReturn(<<>>, <<"API_ERROR">>, 0, 0), AIRaised}

\* ---------------------------------------------------------------- notes and validation
\* f"{extraction_note} | {x}" if extraction_note else x
AddNote(note, x) == IF note = <<>> THEN x ELSE PipeJoin(note, x)

\* "CODE" in note
NoteHas(note, code) == \E i \in 1..Len(note) : note[i] = code

_SKIP_REPORT_FIELDS == {"Remarks"}

ReportableNull(p) ==
    SelectSeq(_ALL_VALUE_FIELDS,
              LAMBDA f : Get(p, f) = None /\ f \notin _SKIP_REPORT_FIELDS)

\* _report_unrecovered_fields: the note it returns
UnrecoveredNote(p, note) ==
    LET reportable_null == ReportableNull(p)
        critical     == SelectSeq(reportable_null, LAMBDA f : f = "Haemoglobin")
        non_critical == SelectSeq(reportable_null, LAMBDA f : f # "Haemoglobin")
        parts == (IF critical # <<>> THEN <<"CRITICAL_UNRECOVERED">> ELSE <<>>)
        more  == IF non_critical # <<>> THEN AddNote(parts, <<"UNRECOVERED">>) ELSE parts
    IN IF reportable_null = <<>> THEN note ELSE AddNote(note, more)

\* the name the document was uploaded under
Filename == <<"r", "e", "p", "o", "r", "t", ".", "p", "d", "f">>

StemKeepsAll(filename) == filename

\* filename[:-4] if filename.lower().endswith(".pdf") else filename
Stem(filename) ==
    IF Len(filename) >= 4
       /\ Lower(SubSeq(filename, Len(filename) - 3, Len(filename))) = <<".", "p", "d", "f">>
    THEN SubSeq(filename, 1, Len(filename) - 4)
    ELSE filename

FilenameStem == Stem(Filename)

\* ---------------------------------------------------------------- validator
\* Values the validator tells apart.  A str is the sequence of its characters
\* (or one word atom); a float is one token, its repr; a dict, a list and
\* True are sequences that start with a type token.
Floats == {"12.6", "13.0", "8200.0", "14.1", "12.0", "0.5", "-1.0"}

TypeTokens == {"<None>", "<dict>", "<list>", "<True>"}

IsFloat(v) == Len(v) = 1 /\ v[1] \in Floats

\* isinstance(value, (int, float)): bool is an int
IsNumber(v) == IsFloat(v) \/ v = <<"<True>">>

\* isinstance(value, str)
IsStr(v) == v = <<>> \/ (v[1] \notin TypeTokens /\ ~IsFloat(v))

\* isinstance(val, dict)
IsDict(v) == v # <<>> /\ v[1] = "<dict>"

\* the dict {"value": v, "flag": f}
Nested(v, f) == <<"<dict>", "<value>">> \o v \o <<"<flag>">> \o f

\* key in val, for the keys "<value>" and "<flag>"
HasNested(val, key) == \E i \in 1..Len(val) : val[i] = key

\* val.get(key)
NestedGet(val, key) ==
    IF ~HasNested(val, key) THEN None
    ELSE LET i    == CHOOSE k \in 1..Len(val) : val[k] = key
             ends == {k \in (i + 1)..Len(val) : val[k] \in {"<value>", "<flag>"}}
             j    == IF ends = {} THEN Len(val) + 1
                     ELSE CHOOSE k \in ends : \A m \in ends : k <= m
         IN SubSeq(val, i + 1, j - 1)

\* bool(v) of None, a str or a dict
Truthy(v) == v # None /\ v # <<>>

Digits == {"0", "1", "2", "3", "4", "5", "6", "7", "8", "9"}

RECURSIVE Concat(_)
Concat(s) == IF s = <<>> THEN "" ELSE Head(s) \o Concat(Tail(s))

\* str.upper() on the letters of the flag words
UpperChar(c) ==
    CASE c = "l" -> "L" [] c = "o" -> "O" [] c = "w" -> "W"
      [] c = "h" -> "H" [] c = "i" -> "I" [] c = "g" -> "G"
      [] c \in {"Low", "low"} -> "LOW" [] c \in {"High", "high"} -> "HIGH"
      [] OTHER -> c

Upper(s) == [i \in 1..Len(s) |-> UpperChar(s[i])]

\* float() of a decimal numeral without its sign
FloatOfBody(negative, body) ==
    LET dots == {i \in 1..Len(body) : body[i] = "."}
        d    == IF dots = {} THEN Len(body) + 1 ELSE CHOOSE i \in dots : TRUE
    IN IF /\ \A i \in 1..Len(body) : body[i] \in Digits \cup {"."}
          /\ Cardinality(dots) <= 1
          /\ Len(body) > Cardinality(dots)
       THEN << (IF negative THEN "-" ELSE "")
               \o (IF d = 1 THEN "0" ELSE Concat(SubSeq(body, 1, d - 1))) \o "."
               \o (IF d >= Len(body) THEN "0" ELSE Concat(SubSeq(body, d + 1, Len(body)))) >>
       ELSE None

\* float(s) of a str: the float, or None where float() raises ValueError.
\* Decimal notation with an optional sign; written without redundant zeros.
FloatOf(s) ==
    LET t == Strip(s) IN
    FloatOfBody(t # <<>> /\ t[1] = "-",
                IF t # <<>> /\ t[1] \in {"-", "+"} THEN Tail(t) ELSE t)

_strip_str(value) == IF IsStr(value) THEN Strip(value) ELSE value

\* the length of the longest prefix of t matched by [\d.]+
DigitRun(t) ==
    CHOOSE k \in 0..Len(t) :
        /\ \A i \in 1..k : t[i] \in Digits \cup {"."}
        /\ k = Len(t) \/ t[k + 1] \notin Digits \cup {"."}

\* the match of _EMBEDDED_FLAG_RE with n characters in group 1: num is
\* float(group 1), word is group 2 in upper case
EmbeddedOf(num, word, n) ==
    IF n >= 1 /\ word \in {"L", "H", "LOW", "HIGH"} /\ num # None
    THEN <<num, IF word \in {"L", "LOW"} THEN <<"LOW">> ELSE <<"HIGH">>>>
    ELSE <<None, None>>

NoEmbeddedFlag(raw) == <<None, None>>

\* _EMBEDDED_FLAG_RE = ^([\d.]+)\s*(L|H|Low|High|low|high)$ with IGNORECASE,
\* matched against raw.strip(): <<num_val, flag>>
_parse_embedded_flag(raw) ==
    LET t == Strip(raw)
        n == DigitRun(Strip(raw))
    IN EmbeddedOf(FloatOf(SubSeq(t, 1, n)),
                  Concat(Upper(LStrip(SubSeq(t, n + 1, Len(t))))),
                  n)

\* _coerce_numeric on a str, after the strip
CoerceStr(stripped, embedded) ==
    IF stripped = <<>> THEN <<None, None>>
    ELSE IF embedded[1] # None THEN embedded
    ELSE <<FloatOf(stripped), None>>

\* <<coerced_value, flag_hint>>
_coerce_numeric(value) ==
    IF value = None THEN <<None, None>>
    ELSE IF IsNumber(value) THEN <<value, None>>
    ELSE IF IsStr(value) THEN CoerceStr(Strip(value), _parse_embedded_flag(Strip(value)))
    ELSE <<None, None>>

FlagKeptAsIs(value) == value

_normalize_flag(value) ==
    IF value = None THEN None
    ELSE IF IsStr(value)
    THEN LET upper == Concat(Upper(Strip(value))) IN
         IF upper \in {"HIGH", "H"} THEN <<"HIGH">>
         ELSE IF upper \in {"LOW", "L"} THEN <<"LOW">>
         ELSE None
    ELSE None

\* the numeric columns among the modelled ones
NUMERIC_FIELDS == <<"Haemoglobin", "TLC">>

\* Steps 1 and 2: the loop over MASTER_COLUMNS from column i on
RECURSIVE FlattenFrom(_, _, _)
FlattenFrom(cleaned, raw_data, i) ==
    IF i > Len(MASTER_COLUMNS) THEN cleaned
    ELSE LET col      == MASTER_COLUMNS[i]
             val      == Get(raw_data, col)
             flag_col == FlagCol(col)
             valued   == Put(cleaned, col, NestedGet(val, "<value>"))
             next     == IF IsDict(val) /\ HasNested(val, "<value>")
                         THEN IF flag_col \in FLAG_FIELDS /\ Truthy(NestedGet(val, "<flag>"))
                              THEN Put(valued, flag_col, NestedGet(val, "<flag>"))
                              ELSE valued
                         ELSE Put(cleaned, col, val)
         IN FlattenFrom(next, raw_data, i + 1)

\* Step 4, lines 399-404: coerced and flag_hint are written
WriteCoerced(cleaned, f, r) ==
    LET coerced == Put(cleaned, f, r[1]) IN
    IF Truthy(r[2]) /\ FlagCol(f) \in FLAG_FIELDS /\ Get(coerced, FlagCol(f)) = None
    THEN Put(coerced, FlagCol(f), r[2])
    ELSE coerced

\* Step 4: one iteration of the loop over NUMERIC_FIELDS
CoerceField(cleaned, f) == WriteCoerced(cleaned, f, _coerce_numeric(Get(cleaned, f)))

RECURSIVE CoerceFrom(_, _)
CoerceFrom(cleaned, i) ==
    IF i > Len(NUMERIC_FIELDS) THEN cleaned
    ELSE CoerceFrom(CoerceField(cleaned, NUMERIC_FIELDS[i]), i + 1)

\* Step 3
StripAll(cleaned) ==
    [i \in 1..Len(cleaned) |-> <<cleaned[i][1], _strip_str(cleaned[i][2])>>]

\* Step 5
NormalizeFlags(cleaned) ==
    [i \in 1..Len(cleaned) |->
        IF cleaned[i][1] \in FLAG_FIELDS
        THEN <<cleaned[i][1], _normalize_flag(cleaned[i][2])>>
        ELSE cleaned[i]]

\* Step 6 and the notes joined into Extraction_Note
NameAndNotes(cleaned, filename, existing_note) ==
    IF ~Truthy(Get(cleaned, "PatientName"))
    THEN Put(Put(cleaned, "PatientName", Stem(filename)),
             "Extraction_Note", AddNote(existing_note, <<"NAME_NOT_FOUND">>))
    ELSE Put(cleaned, "Extraction_Note",
             IF existing_note = <<>> THEN None ELSE existing_note)

\* validate_and_clean on the modelled columns: steps 1 to 6 and the notes
\* joined into Extraction_Note (Blood_Group, Rh_Type and Data_Quality are
\* not among the modelled columns)
validate_and_clean(raw_data, filename, existing_note) ==
    NameAndNotes(
        NormalizeFlags(CoerceFrom(StripAll(FlattenFrom(<<>>, raw_data, 1)), 1)),
        filename, existing_note)

\* count_fields: <<extracted, null>>
count_fields(data) ==
    LET extracted == Len(SelectSeq(_ALL_VALUE_FIELDS, LAMBDA col : Get(data, col) # None))
    IN <<extracted, Len(_ALL_VALUE_FIELDS) - extracted>>

\* ---------------------------------------------------------------- extract_with_ai
\* config.py line 50: int(os.getenv("AI_CONCURRENCY", "10")); the deployment
\* modelled sets AI_CONCURRENCY=2 in its environment
AI_CONCURRENCY == 2

AI_MAX_RETRIES == 1

\* config.py line 96: MOCK_AI is off unless the environment sets it
MOCK_AI == FALSE

\* concurrent callers of extract_with_ai in the process
MaxCallers == 3

Callers == DOMAIN aicall

\* what one POST of _call_openai_async can end in: a JSON object, text that
\* json.loads rejects, JSON that is not an object, raise_for_status() raising
\* HTTPStatusError, the transport raising RequestError
Responses == {"object", "empty_object", "malformed", "non_object", "http_error", "transport"}

\* usage.prompt_tokens and usage.completion_tokens of a response that arrived
ResponseTokens(resp) ==
    IF resp \in {"http_error", "transport"} THEN <<0, 0>> ELSE <<5, 2>>

\* json.loads(cleaned) of a response that is a JSON object
ResponseData(resp) ==
    IF resp = "object" THEN << <<"Remarks", <<"o", "k">>>> >> ELSE <<>>

IdleCall ==
    [ pc |-> "idle", null_fields |-> <<>>, attempt |-> 0, total_input |-> 0,
      total_output |-> 0, requests |-> 0, acquired |-> 0, backoffs |-> 0,
      failures |-> 0, last |-> "none", result |-> AIReturn(<<>>, <<>>, 0, 0) ]

IdleRemote(n) ==
    /\ _ai_semaphore = AI_CONCURRENCY
    /\ aicall = [k \in 1..n |-> IdleCall]

NeverReturnsEarly(null_fields) == FALSE

\* extract_with_ai line 354: if not null_fields
EmptyFieldList(null_fields) == null_fields = <<>>

\* extract_with_ai lines 329-401, up to the await of _call_ai_with_retry
ExtractWithAI(k) ==
    /\ aicall[k].pc = "idle"
    /\ \E nf \in {<<>>, <<"Haemoglobin", "Remarks">>} :
          aicall' = [aicall EXCEPT ![k] =
              IF EmptyFieldList(nf)
              THEN [@ EXCEPT !.pc = "returned", !.null_fields = nf,
                             !.result = AIReturn(<<>>, <<>>, 0, 0)]
              ELSE IF MOCK_AI
              THEN [@ EXCEPT !.pc = "returned", !.null_fields = nf,
                             !.result = AIReturn(<<>>, <<"LLM_MOCK">>, 0, 0)]
              ELSE [@ EXCEPT !.pc = "acquire", !.null_fields = nf, !.attempt = 0]]
    /\ UNCHANGED <<patient, mergeVars, pipeVars, batchVars, _ai_semaphore>>

PermitFreeAtZero(value) == value >= 0

\* asyncio.Semaphore.acquire returns at once only while its value is positive
PermitFree(value) == value > 0

\* _call_ai_with_retry lines 271-273: async with _get_semaphore() is entered
\* and _call_openai_async posts the request
AcquirePermit(k) ==
    /\ aicall[k].pc = "acquire"
    /\ PermitFree(_ai_semaphore)
    /\ _ai_semaphore' = _ai_semaphore - 1
    /\ aicall' = [aicall EXCEPT ![k].pc = "request", ![k].requests = @ + 1,
                                ![k].acquired = @ + 1]
    /\ UNCHANGED <<patient, mergeVars, pipeVars, batchVars>>

RetryWithoutCeiling(attempt) == "retry"

\* for attempt in range(AI_MAX_RETRIES + 1) with "if attempt < AI_MAX_RETRIES:
\* continue" in every handler: what follows a failed attempt
AfterFailure(attempt) ==
    IF attempt < AI_MAX_RETRIES /\ attempt + 1 < AI_MAX_RETRIES + 1 THEN "retry"
    ELSE "give_up"

PermitKept(value) == value

\* line 272: leaving the async with block, by return or by exception, gives
\* the permit back
PermitReleased(value) == value + 1

EveryFailureInvalidJson(resp) == TRUE

\* lines 291-297: json.loads raised JSONDecodeError or the data is not a
\* dict (ValueError); the handler continues without sleeping
InvalidJson(resp) == resp \in {"malformed", "non_object"}

\* _call_ai_with_retry lines 272-322: the awaited POST completes, the permit
\* is released on the way out of the async with block, and the response or
\* the exception is handled
Respond(k) ==
    /\ aicall[k].pc = "request"
    /\ _ai_semaphore' = PermitReleased(_ai_semaphore)
    /\ \E resp \in Responses :
          LET c    == aicall[k]
              tok  == ResponseTokens(resp)
              inp  == c.total_input + tok[1]
              out  == c.total_output + tok[2]
              bad  == IF resp \in {"object", "empty_object"} THEN 0 ELSE 1
              seen == [c EXCEPT !.total_input = inp, !.total_output = out,
                                !.failures = @ + bad, !.last = resp]
          IN aicall' = [aicall EXCEPT ![k] =
                IF resp \in {"object", "empty_object"}
                THEN [seen EXCEPT !.pc = "returned",
                                  !.result = AIReturn(ResponseData(resp), <<>>, inp, out)]
                ELSE IF AfterFailure(c.attempt) = "retry"
                THEN IF InvalidJson(resp)
                     THEN [seen EXCEPT !.pc = "acquire", !.attempt = @ + 1]
                     ELSE [seen EXCEPT !.pc = "backoff", !.backoffs = @ + 1]
                ELSE [seen EXCEPT !.pc = "returned",
                                  !.result = AIReturn(<<>>, <<"API_ERROR">>, inp, out)]]
    /\ UNCHANGED <<patient, mergeVars, pipeVars, batchVars>>

\* lines 305-307 and 317-319: asyncio.sleep(backoff) returns and the loop continues
BackoffElapsed(k) ==
    /\ aicall[k].pc = "backoff"
    /\ aicall' = [aicall EXCEPT ![k].pc = "acquire", ![k].attempt = @ + 1]
    /\ UNCHANGED <<patient, mergeVars, pipeVars, batchVars, _ai_semaphore>>

\* ---------------------------------------------------------------- Job
\* excel_bytes: absent, or a workbook and the documents whose records it holds
NoExcel == [present |-> FALSE, covers |-> {}]

Excel(covered) == [present |-> TRUE, covers |-> covered]

NoResponse == [code |-> 0, body |-> NoExcel]

IdleBatch ==
    /\ job = [in_store |-> FALSE, status |-> "none", excel_bytes |-> NoExcel,
              excel_filename |-> "None"]
    /\ db_job = [status |-> "none", excel_bytes |-> NoExcel, excel_filename |-> "None"]
    /\ job_files = <<>>
    /\ db_files = <<>>
    /\ records = <<>>
    /\ semaphore = 0
    /\ task = <<>>
    /\ batch_pc = "idle"
    /\ response = NoResponse

\* ---------------------------------------------------------------- _process_single_file
STATUS_PENDING == "pending"
STATUS_PROCESSING == "processing"
STATUS_DONE == "done"
STATUS_FAILED == "failed"

FileStatus ==
    [ filename |-> Filename,
      status |-> STATUS_PENDING, patient_name |-> None, error_notes |-> None,
      fields_extracted |-> 0, fields_null |-> 0,
      pages_regex_handled |-> 0, pages_ocr_handled |-> 0, pages_ai_handled |-> 0,
      pages_graph_detected |-> 0, unrecovered_fields |-> <<>>,
      total_input_tokens |-> 0, total_output_tokens |-> 0 ]

NoResult == AIReturn(<<>>, <<>>, 0, 0)

SetHandler(ps, idxs, tag) ==
    [i \in 1..Len(ps) |-> IF i \in idxs THEN [ps[i] EXCEPT !.handler = tag] ELSE ps[i]]

HandledLocallyFrom4(fields_found) == fields_found >= 4

HandledLocallyFrom1(fields_found) == fields_found >= 1

\* the routing rule: the page is owned by the deterministic tier
HandledLocally(fields_found) == fields_found >= 3

\* lines 493-498: the pipeline starts
StartFile ==
    /\ pc = "pending"
    /\ file_status' = [file_status EXCEPT !.status = STATUS_PROCESSING]
    /\ extraction_note' = <<>>
    /\ record' = <<>>
    /\ patient' = _empty_patient
    /\ pc' = "pdf"
    /\ UNCHANGED <<mergeVars, remoteVars, batchVars, pages, page_i, pending_ai, null_fields_snapshot, chunks,
                   chunk_st, chunk_results, calls, merge_i, openai_calls>>

\* lines 502-511: process_pdf reports a document-level error
ProcessPdfError ==
    /\ pc = "pdf"
    /\ \E err \in {"PDF_PASSWORD_PROTECTED", "PDF_CORRUPTED"} :
          LET rec == validate_and_clean(<<>>, file_status.filename, <<err>>) IN
          /\ extraction_note' = <<err>>
          /\ record' = rec
          /\ file_status' = [file_status EXCEPT !.status = STATUS_FAILED,
                                                !.error_notes = <<err>>,
                                                !.patient_name = Get(rec, "PatientName")]
    /\ pc' = "done"
    /\ UNCHANGED <<patient, mergeVars, remoteVars, batchVars, pages, page_i, pending_ai, null_fields_snapshot,
                   chunks, chunk_st, chunk_results, calls, merge_i, openai_calls>>

\* lines 502-520: process_pdf returns the pages of a document
ProcessPdfOk ==
    /\ pc = "pdf"
    /\ \E n \in 1..MaxPages : \E raws \in [1..n -> RawPages] :
          LET pdf_result == process_pdf(raws) IN
          /\ pages' = pdf_result.pages
          /\ extraction_note' = IF pdf_result.partial_ocr THEN <<"PARTIAL_OCR">> ELSE <<>>
    /\ pending_ai' = <<>>
    /\ page_i' = 1
    /\ pc' = "phase1"
    /\ UNCHANGED <<patient, mergeVars, remoteVars, batchVars, file_status, null_fields_snapshot, chunks,
                   chunk_st, chunk_results, calls, merge_i, openai_calls, record>>

\* lines 522-605: one iteration of the Phase 1 loop
Phase1Page ==
    /\ pc = "phase1"
    /\ page_i <= Len(pages)
    /\ LET page       == pages[page_i]
           usable     == page.ocr_text # <<>> /\ page.ocr_above_threshold
           found      == IF page.mode = "ocr" THEN extract_with_regex(page.ocr_text)
                         ELSE extract_with_regex(page.raw_text)
           n          == count_regex_fields(found)
       IN
       IF page.is_graph_page
       THEN /\ patient' = _mark_graph_present(patient, page.graph_type)
            /\ pages' = SetHandler(pages, {page_i}, "GRAPH_PAGE")
            /\ file_status' = [file_status EXCEPT !.pages_graph_detected = @ + 1]
            /\ UNCHANGED pending_ai
       ELSE IF page.mode = "ocr"
       THEN IF usable /\ HandledLocally(n)
            THEN /\ patient' = _merge_into_patient(patient, found)
                 /\ pages' = SetHandler(pages, {page_i}, "OCR_HANDLED")
                 /\ file_status' = [file_status EXCEPT !.pages_ocr_handled = @ + 1]
                 /\ UNCHANGED pending_ai
            ELSE /\ patient' = IF usable /\ n > 0 THEN _merge_into_patient(patient, found)
                               ELSE patient
                 /\ IF page.image_base64
                    THEN /\ pending_ai' = Append(pending_ai, <<page_i, "image">>)
                         /\ UNCHANGED pages
                    ELSE /\ pages' = SetHandler(pages, {page_i}, "SKIPPED_NO_IMAGE")
                         /\ UNCHANGED pending_ai
                 /\ UNCHANGED file_status
       ELSE IF HandledLocally(n)
            THEN /\ patient' = _merge_into_patient(patient, found)
                 /\ pages' = SetHandler(pages, {page_i}, "REGEX_HANDLED")
                 /\ file_status' = [file_status EXCEPT !.pages_regex_handled = @ + 1]
                 /\ UNCHANGED pending_ai
            ELSE /\ patient' = IF n > 0 THEN _merge_into_patient(patient, found) ELSE patient
                 /\ IF page.raw_text # <<>>
                    THEN /\ pending_ai' = Append(pending_ai, <<page_i, "text">>)
                         /\ UNCHANGED pages
                    ELSE /\ pages' = SetHandler(pages, {page_i}, "SKIPPED_NO_NULLS")
                         /\ UNCHANGED pending_ai
                 /\ UNCHANGED file_status
    /\ page_i' = page_i + 1
    /\ UNCHANGED <<mergeVars, remoteVars, batchVars, pc, extraction_note, null_fields_snapshot, chunks, chunk_st,
                   chunk_results, calls, merge_i, openai_calls, record>>

\* lines 618-637: the snapshot, the drop of the pending pages when nothing
\* is null, the chunks and one _call_chunk coroutine per chunk
Snapshot ==
    /\ pc = "phase1"
    /\ page_i > Len(pages)
    /\ LET snap    == _get_null_fields(patient)
           pending == IF snap # <<>> THEN pending_ai ELSE <<>>
           built   == IF pending # <<>>
                      THEN _build_chunks(pending, _IMAGE_CHUNK_SIZE, _TEXT_CHUNK_SIZE)
                      ELSE <<>>
       IN /\ null_fields_snapshot' = snap
          /\ pending_ai' = pending
          /\ chunks' = built
          /\ chunk_st' = [c \in 1..Len(built) |-> "new"]
          /\ chunk_results' = [c \in 1..Len(built) |-> NoResult]
    /\ merge_i' = 1
    /\ pc' = "gather"
    /\ UNCHANGED <<patient, mergeVars, remoteVars, batchVars, file_status, pages, extraction_note, page_i, calls,
                   openai_calls, record>>

\* lines 641-647: the chunk's pages that carry an image
ImagesOf(chunk) == SelectSeq(chunk.pages, LAMBDA i : pages[i].image_base64)

\* lines 657-704: the field list _call_chunk passes to extract_with_ai
ChunkNullFields(chunk) ==
    _prune_null_fields_for_chunk(null_fields_snapshot, chunk.pages, chunk.mode)

\* lines 666-672 and 693-701: _call_chunk returns without calling extract_with_ai
ChunkSkipped(chunk) ==
    IF chunk.mode = "image" THEN ImagesOf(chunk) = <<>>
    ELSE ChunkNullFields(chunk) = <<>>

\* lines 640-723: the coroutine of chunk c runs up to its first suspension.
\* gather() wraps the coroutines in tasks in argument order, so they start
\* in chunk order.  A skipped chunk and an empty field list (ai_extractor.py
\* line 354) return at once; otherwise the remote request is issued.
StartChunk(c) ==
    /\ pc = "gather"
    /\ c \in 1..Len(chunks)
    /\ chunk_st[c] = "new"
    /\ \A d \in 1..(c - 1) : chunk_st[d] # "new"
    /\ LET chunk == chunks[c] IN
       IF ChunkSkipped(chunk)
       THEN /\ pages' = SetHandler(pages, Range(chunk.pages),
                                   IF chunk.mode = "image" THEN "SKIPPED_NO_IMAGE"
                                   ELSE "SKIPPED_NO_NULLS")
            /\ chunk_st' = [chunk_st EXCEPT ![c] = "done"]
            /\ UNCHANGED calls
       ELSE IF ChunkNullFields(chunk) = <<>>
       THEN /\ chunk_st' = [chunk_st EXCEPT ![c] = "done"]
            /\ UNCHANGED <<pages, calls>>
       ELSE /\ calls' = Append(calls, [chunk |-> c, mode |-> chunk.mode,
                                       null_fields |-> ChunkNullFields(chunk),
                                       pages |-> IF chunk.mode = "image" THEN ImagesOf(chunk)
                                                 ELSE chunk.pages])
            /\ chunk_st' = [chunk_st EXCEPT ![c] = "inflight"]
            /\ UNCHANGED pages
    /\ UNCHANGED <<patient, mergeVars, remoteVars, batchVars, pc, file_status, extraction_note, page_i, pending_ai,
                   null_fields_snapshot, chunks, chunk_results, merge_i, openai_calls, record>>

FirstFree(results) ==
    CHOOSE k \in 1..Len(results) :
        results[k] = NoResult /\ \A j \in 1..(k - 1) : results[j] # NoResult

StoreInCompletionOrder(results, c, outcome) ==
    IF \E k \in 1..Len(results) : results[k] = NoResult
    THEN [results EXCEPT ![FirstFree(results)] = outcome]
    ELSE [results EXCEPT ![c] = outcome]

\* lines 727-730: gather() returns the outcomes in the order of its
\* arguments, the outcome of chunk c at index c
StoreResult(results, c, outcome) == [results EXCEPT ![c] = outcome]

\* lines 673-723: the awaited extract_with_ai of chunk c completes, with a
\* result tuple or with an exception that gather() hands back as a value
FinishChunk(c) ==
    /\ pc = "gather"
    /\ c \in 1..Len(chunks)
    /\ chunk_st[c] = "inflight"
    /\ \E outcome \in AIOutcomes : chunk_results' = StoreResult(chunk_results, c, outcome)
    /\ chunk_st' = [chunk_st EXCEPT ![c] = "done"]
    /\ UNCHANGED <<patient, mergeVars, remoteVars, batchVars, pc, file_status, pages, extraction_note, page_i,
                   pending_ai, null_fields_snapshot, chunks, calls, merge_i, openai_calls,
                   record>>

GatherReturnedEarly == chunk_st[merge_i] = "done"

\* lines 727-730: await asyncio.gather(...) returns when every coroutine has
GatherReturned == \A c \in 1..Len(chunks) : chunk_st[c] = "done"

\* lines 733-777: one iteration of the merge loop
MergeOutcome ==
    /\ pc = "gather"
    /\ merge_i <= Len(chunks)
    /\ GatherReturned
    /\ LET outcome == chunk_results[merge_i]
           chunk   == chunks[merge_i]
       IN
       IF outcome.raised
       THEN /\ extraction_note' = AddNote(extraction_note, <<"API_ERROR">>)
            /\ UNCHANGED <<patient, pages, file_status, openai_calls>>
       ELSE /\ openai_calls' =
                  Append(openai_calls,
                         [input_tokens |-> outcome.inp_tok, output_tokens |-> outcome.out_tok,
                          success |-> outcome.ai_result # <<>> /\ outcome.ai_note = <<>>,
                          error_type |-> outcome.ai_note])
            /\ extraction_note' = IF outcome.ai_note # <<>>
                                  THEN AddNote(extraction_note, outcome.ai_note)
                                  ELSE extraction_note
            /\ patient' = IF outcome.ai_result # <<>>
                          THEN _merge_into_patient(patient, outcome.ai_result) ELSE patient
            /\ file_status' =
                  [file_status EXCEPT
                     !.total_input_tokens = @ + outcome.inp_tok,
                     !.total_output_tokens = @ + outcome.out_tok,
                     !.pages_ai_handled = @ + (IF outcome.ai_result # <<>> THEN Len(chunk.pages)
                                               ELSE 0)]
            /\ pages' = SetHandler(pages, Range(chunk.pages), "AI_HANDLED")
    /\ merge_i' = merge_i + 1
    /\ UNCHANGED <<mergeVars, remoteVars, batchVars, pc, page_i, pending_ai, null_fields_snapshot, chunks, chunk_st,
                   chunk_results, calls, record>>

HasErrorPdfOnly(note) ==
    \/ NoteHas(note, "PDF_CORRUPTED")
    \/ NoteHas(note, "PDF_PASSWORD_PROTECTED")

HasError(note) ==
    \/ NoteHas(note, "API_ERROR")
    \/ NoteHas(note, "PDF_CORRUPTED")
    \/ NoteHas(note, "PDF_PASSWORD_PROTECTED")

\* lines 779-817: the unrecovered-field report, validation and the final status
Finish ==
    /\ pc = "gather"
    /\ merge_i > Len(chunks)
    /\ LET note == UnrecoveredNote(patient, extraction_note)
           rec  == validate_and_clean(patient, file_status.filename, note)
           fe   == count_fields(rec)
           en   == Get(rec, "Extraction_Note")
       IN /\ extraction_note' = note
          /\ record' = rec
          /\ file_status' =
                [file_status EXCEPT
                   !.unrecovered_fields = ReportableNull(patient),
                   !.patient_name = Get(rec, "PatientName"),
                   !.fields_extracted = fe[1],
                   !.fields_null = fe[2],
                   !.status = IF en # None /\ HasError(en) THEN STATUS_FAILED
                              ELSE STATUS_DONE,
                   !.error_notes = en]
    /\ pc' = "done"
    /\ UNCHANGED <<patient, mergeVars, remoteVars, batchVars, pages, page_i, pending_ai, null_fields_snapshot,
                   chunks, chunk_st, chunk_results, calls, merge_i, openai_calls>>

IdlePipeline(start) ==
    /\ pc = start
    /\ file_status = FileStatus
    /\ pages = <<>>
    /\ extraction_note = <<>>
    /\ page_i = 1
    /\ pending_ai = <<>>
    /\ null_fields_snapshot = <<>>
    /\ chunks = <<>>
    /\ chunk_st = <<>>
    /\ chunk_results = <<>>
    /\ calls = <<>>
    /\ merge_i = 1
    /\ openai_calls = <<>>
    /\ record = <<>>

\* create_job lines 297-307: a file is registered with status pending
Init ==
    /\ patient = _empty_patient
    /\ source = <<>>
    /\ nmerge = 0
    /\ IdlePipeline("pending")
    /\ IdleRemote(MaxCallers)
    /\ IdleBatch

Next ==
    \/ StartFile
    \/ ProcessPdfError
    \/ ProcessPdfOk
    \/ Phase1Page
    \/ Snapshot
    \/ \E c \in 1..MaxPages : StartChunk(c)
    \/ \E c \in 1..MaxPages : FinishChunk(c)
    \/ MergeOutcome
    \/ Finish

Spec == Init /\ [][Next]_vars

\* ---------------------------------------------------------------- run_batch
\* config.py line 42: int(os.getenv("MAX_WORKERS", "10")); the deployment
\* modelled sets MAX_WORKERS=2 in its environment
MAX_CONCURRENT_EXTRACTIONS == 2

STATUS_COMPLETE == "complete"

\* documents of the batch
MaxFiles == 3

\* what a document turns out to be once its pipeline runs: unreadable, fully
\* handled by the local tiers, in need of the remote tier, or one whose
\* pipeline raises inside the try block of _process_single_file
DocKinds == {"pdf_error", "local", "remote", "raise"}

\* INSERT INTO job_files (job_id, filename, status) VALUES (%s, %s, 'pending'),
\* one row per filename, ids ascending; of the columns, the ones the status
\* payload reads
db_create_job(filenames) ==
    [r \in 1..Len(filenames) |->
        [filename |-> filenames[r], status |-> STATUS_PENDING, patient_name |-> None]]

\* the names the documents of a batch are uploaded under when they all differ
UploadName(i) ==
    <<"r", "e", "p", "o", "r", "t">>
    \o <<CASE i = 1 -> "1" [] i = 2 -> "2" [] i = 3 -> "3" [] i = 4 -> "4" [] OTHER -> "5">>
    \o <<".", "p", "d", "f">>

\* UPDATE job_files SET ... WHERE job_id = %s AND filename = %s: every row
\* of the batch with that filename
db_update_file(rows, filename, fs) ==
    [r \in 1..Len(rows) |->
        IF rows[r].filename = filename
        THEN [rows[r] EXCEPT !.status = fs.status, !.patient_name = fs.patient_name]
        ELSE rows[r]]

Files == 1..Len(job_files)

ExceptionLeavesStatus(fs) == fs

\* _process_single_file lines 790-795: except Exception
OnPipelineException(fs) ==
    [fs EXCEPT !.status = STATUS_FAILED, !.error_notes = <<"API_ERROR">>,
               !.patient_name = Stem(fs.filename)]

DocOutcomePending(fs, kind, result) == [fs EXCEPT !.status = STATUS_PENDING]

\* the FileStatus _process_single_file leaves for a document of the given
\* kind whose remote call, if it made one, returned result
DocOutcome(fs, kind, result) ==
    CASE kind = "pdf_error" ->
            [fs EXCEPT !.status = STATUS_FAILED, !.error_notes = <<"PDF_CORRUPTED">>,
                       !.patient_name = Stem(fs.filename)]
      [] kind = "raise" -> OnPipelineException(fs)
      [] kind = "remote" /\ result.ai_note = <<"API_ERROR">> ->
            [fs EXCEPT !.status = STATUS_FAILED, !.error_notes = <<"API_ERROR">>,
                       !.patient_name = Stem(fs.filename)]
      [] OTHER -> [fs EXCEPT !.status = STATUS_DONE, !.patient_name = Stem(fs.filename)]

\* the record of a document: which document, and its Extraction_Note
Record(i, note) == [file |-> i, note |-> note]

NoRecord == [file |-> 0, note |-> None]

\* run_batch lines 828-834: the status is set and the database write awaited
RunBatchStart ==
    /\ batch_pc = "queued"
    /\ job.in_store
    /\ job' = [job EXCEPT !.status = STATUS_PROCESSING]
    /\ batch_pc' = "set_processing"
    /\ UNCHANGED <<patient, mergeVars, pipeVars, remoteVars, db_job, db_files, job_files, records,
                   semaphore, task, response>>

\* run_batch lines 834-862: the write returns, the semaphore and the records
\* list are made, one task per document is created and gather is awaited
RunBatchSpawn ==
    /\ batch_pc = "set_processing"
    /\ db_job' = [db_job EXCEPT !.status = STATUS_PROCESSING]
    /\ semaphore' = MAX_CONCURRENT_EXTRACTIONS
    /\ records' = [i \in Files |-> NoRecord]
    /\ task' = [i \in Files |-> [pc |-> "wait", kind |-> "none", raised |-> FALSE]]
    /\ batch_pc' = "gather"
    /\ UNCHANGED <<patient, mergeVars, pipeVars, remoteVars, job, db_files, job_files, response>>

WorkerFreeAtZero(value) == value >= 0

\* run_batch line 841: async with semaphore is entered only while a slot is free
WorkerFree(value) == value > 0

SlotKept(value) == value

\* run_batch line 841: leaving the async with block gives the slot back
SlotReleased(value) == value + 1

\* process_one lines 839-843 and _process_single_file line 494: the task gets
\* a slot and the pipeline of its document starts
Admit(i) ==
    /\ batch_pc = "gather"
    /\ i \in Files
    /\ task[i].pc = "wait"
    /\ WorkerFree(semaphore)
    /\ semaphore' = semaphore - 1
    /\ \E kind \in DocKinds : task' = [task EXCEPT ![i].pc = "pipeline", ![i].kind = kind]
    /\ job_files' = [job_files EXCEPT ![i].status = STATUS_PROCESSING]
    /\ UNCHANGED <<patient, mergeVars, pipeVars, remoteVars, job, db_job, db_files, records, batch_pc,
                   response>>

\* _process_single_file Phase 2: the document calls extract_with_ai
DocCallsRemote(i) ==
    /\ i \in DOMAIN task
    /\ task[i].pc = "pipeline"
    /\ task[i].kind = "remote"
    /\ ExtractWithAI(i)

\* _process_single_file returns its record (lines 502-817) and process_one
\* stores it and awaits db_update_file (lines 843-847); the frames of the
\* pipeline and of the extract_with_ai call it made are gone
PipelineReturns(i) ==
    /\ i \in DOMAIN task
    /\ task[i].pc = "pipeline"
    /\ task[i].kind = "remote" => aicall[i].pc = "returned"
    /\ LET fs == DocOutcome(job_files[i], task[i].kind, aicall[i].result) IN
       /\ job_files' = [job_files EXCEPT ![i] = fs]
       /\ records' = [records EXCEPT ![i] = Record(i, fs.error_notes)]
    /\ task' = [task EXCEPT ![i] = [pc |-> "saving", kind |-> "none",
                                    raised |-> task[i].kind = "raise"]]
    /\ aicall' = [aicall EXCEPT ![i] = [IdleCall EXCEPT !.pc = "closed"]]
    /\ UNCHANGED <<patient, mergeVars, pipeVars, _ai_semaphore, job, db_job, db_files, semaphore,
                   batch_pc, response>>

\* process_one lines 847-856: db_update_file returns, or raises and the
\* handler replaces the record, marks the document failed and writes again
FileSaved(i) ==
    /\ i \in DOMAIN task
    /\ task[i].pc = "saving"
    /\ \E written \in BOOLEAN :
          IF written
          THEN /\ db_files' = db_update_file(db_files, job_files[i].filename, job_files[i])
               /\ task' = [task EXCEPT ![i].pc = "finished"]
               /\ semaphore' = SlotReleased(semaphore)
               /\ UNCHANGED <<job_files, records>>
          ELSE /\ task' = [task EXCEPT ![i].pc = "saving_again"]
               /\ records' = [records EXCEPT ![i] = Record(i, <<"API_ERROR">>)]
               /\ job_files' = [job_files EXCEPT ![i].status = STATUS_FAILED,
                                                 ![i].error_notes = <<"API_ERROR">>,
                                                 ![i].patient_name = Stem(job_files[i].filename)]
               /\ UNCHANGED <<semaphore, db_files>>
    /\ UNCHANGED <<patient, mergeVars, pipeVars, remoteVars, job, db_job, batch_pc, response>>

\* process_one line 856: the handler's db_update_file returns or raises; in
\* both cases the task ends and gather keeps the exception as a value
FileSavedAgain(i) ==
    /\ i \in DOMAIN task
    /\ task[i].pc = "saving_again"
    /\ \E written \in BOOLEAN :
          db_files' = IF written
                      THEN db_update_file(db_files, job_files[i].filename, job_files[i])
                      ELSE db_files
    /\ task' = [task EXCEPT ![i].pc = "finished"]
    /\ semaphore' = SlotReleased(semaphore)
    /\ UNCHANGED <<patient, mergeVars, pipeVars, remoteVars, job, db_job, job_files, records,
                   batch_pc, response>>

AnyTaskFinished == \E i \in DOMAIN task : task[i].pc = "finished"

\* run_batch line 862: await asyncio.gather(*tasks) returns when every task has ended
AllTasksFinished == \A i \in DOMAIN task : task[i].pc = "finished"

\* final_records: the documents that have a record
FinalRecords == {i \in Files : records[i] # NoRecord}

\* run_batch lines 862-887: gather returns, the summaries and final_records
\* are put together and build_excel is awaited
GatherReturns ==
    /\ batch_pc = "gather"
    /\ AllTasksFinished
    /\ batch_pc' = "build"
    /\ UNCHANGED <<patient, mergeVars, pipeVars, remoteVars, job, db_job, db_files, job_files, records,
                   semaphore, task, response>>

\* run_batch lines 884-889 and 894-898: build_excel returns the workbook,
\* which is put on the Job before db_save_excel is awaited; or it raises,
\* the handler logs, and the status is set complete
BuildExcel ==
    /\ batch_pc = "build"
    /\ \E built \in BOOLEAN :
          IF built
          THEN /\ job' = [job EXCEPT !.excel_bytes = Excel(FinalRecords),
                                     !.excel_filename = "medical_reports.xlsx"]
               /\ batch_pc' = "store"
          ELSE /\ job' = [job EXCEPT !.status = STATUS_COMPLETE]
               /\ batch_pc' = "set_complete"
    /\ UNCHANGED <<patient, mergeVars, pipeVars, remoteVars, db_job, db_files, job_files, records,
                   semaphore, task, response>>

SaveExcelAndComplete(row, excel_bytes, excel_filename) ==
    [row EXCEPT !.excel_bytes = excel_bytes, !.excel_filename = excel_filename,
                !.status = STATUS_COMPLETE]

\* UPDATE jobs SET excel_bytes = %s, excel_filename = %s WHERE job_id = %s
db_save_excel(row, excel_bytes, excel_filename) ==
    [row EXCEPT !.excel_bytes = excel_bytes, !.excel_filename = excel_filename]

\* run_batch lines 890-898: db_save_excel returns or raises; in both cases
\* the status is set complete and the status write is awaited
StoreExcel ==
    /\ batch_pc = "store"
    /\ \E stored \in BOOLEAN :
          db_job' = IF stored THEN db_save_excel(db_job, job.excel_bytes, job.excel_filename)
                    ELSE db_job
    /\ job' = [job EXCEPT !.status = STATUS_COMPLETE]
    /\ batch_pc' = "set_complete"
    /\ UNCHANGED <<patient, mergeVars, pipeVars, remoteVars, db_files, job_files, records, semaphore,
                   task, response>>

JobsKeep(j) == j

\* run_batch line 899: _jobs.pop(job_id, None)
JobsPop(j) == [j EXCEPT !.in_store = FALSE]

\* run_batch lines 898-899: the status write returns and the Job leaves _jobs
SetComplete ==
    /\ batch_pc = "set_complete"
    /\ db_job' = [db_job EXCEPT !.status = STATUS_COMPLETE]
    /\ job' = JobsPop(job)
    /\ batch_pc' = "finished"
    /\ UNCHANGED <<patient, mergeVars, pipeVars, remoteVars, db_files, job_files, records, semaphore,
                   task, response>>

\* job ids a request can name: the batch's, and one that was never created
JobIds == {"job", "unknown"}

NoJob == [found |-> FALSE, status |-> "none", excel_bytes |-> NoExcel, excel_filename |-> "None"]

\* get_job: the Job in _jobs, else one rebuilt from the jobs table
get_job(job_id) ==
    IF job_id = "job" /\ job.in_store
    THEN [found |-> TRUE, status |-> job.status, excel_bytes |-> job.excel_bytes,
          excel_filename |-> job.excel_filename]
    ELSE IF job_id # "job" \/ db_job.status = "none" THEN NoJob
    ELSE [found |-> TRUE, status |-> db_job.status,
          excel_bytes |-> IF db_job.status = STATUS_COMPLETE THEN db_job.excel_bytes
                          ELSE NoExcel,
          excel_filename |-> db_job.excel_filename]

BytesWheneverPresent(job_id) ==
    LET j == get_job(job_id) IN
    IF ~j.found THEN [code |-> 404, body |-> NoExcel]
    ELSE IF j.excel_bytes.present THEN [code |-> 200, body |-> j.excel_bytes]
    ELSE [code |-> 409, body |-> NoExcel]

\* download_excel: the status code and the bytes of the response
download_excel(job_id) ==
    LET j == get_job(job_id) IN
    IF ~j.found THEN [code |-> 404, body |-> NoExcel]
    ELSE IF j.status # STATUS_COMPLETE THEN [code |-> 409, body |-> NoExcel]
    ELSE IF ~j.excel_bytes.present THEN [code |-> 500, body |-> NoExcel]
    ELSE [code |-> 200, body |-> j.excel_bytes]

\* main.py lines 369-400: a client asks for the result of a job and the
\* handler, which awaits nothing, builds the answer
Download ==
    /\ batch_pc # "idle"
    /\ response = NoResponse
    /\ \E job_id \in JobIds : response' = download_excel(job_id)
    /\ UNCHANGED <<patient, mergeVars, pipeVars, remoteVars, job, db_job, db_files, job_files, records,
                   semaphore, task, batch_pc>>

\* main.py lines 373-400: the HTTPException or the Response goes out to the client
ResponseSent ==
    /\ response # NoResponse
    /\ response' = NoResponse
    /\ UNCHANGED <<patient, mergeVars, pipeVars, remoteVars, job, db_job, db_files, job_files, records,
                   semaphore, task, batch_pc>>

\* ---------------------------------------------------------------- SpecBatch
\* One uploaded batch: create_job has registered it and upload_pdfs has
\* queued _run_batch_background (main.py lines 340-357).
InitBatch ==
    /\ patient = _empty_patient
    /\ source = <<>>
    /\ nmerge = 0
    /\ IdlePipeline("batch")
    /\ IdleRemote(MaxFiles)
    /\ job = [in_store |-> TRUE, status |-> STATUS_PENDING, excel_bytes |-> NoExcel,
              excel_filename |-> "None"]
    /\ db_job = [status |-> STATUS_PENDING, excel_bytes |-> NoExcel, excel_filename |-> "None"]
    /\ \E n \in 1..MaxFiles :
          /\ job_files = [i \in 1..n |-> [FileStatus EXCEPT !.filename = UploadName(i)]]
          /\ db_files = db_create_job([i \in 1..n |-> UploadName(i)])
    /\ records = <<>>
    /\ semaphore = 0
    /\ task = <<>>
    /\ batch_pc = "queued"
    /\ response = NoResponse

NextBatch ==
    \/ RunBatchStart
    \/ RunBatchSpawn
    \/ \E i \in 1..MaxFiles : Admit(i)
    \/ \E i \in 1..MaxFiles : DocCallsRemote(i)
    \/ \E i \in 1..MaxFiles : AcquirePermit(i)
    \/ \E i \in 1..MaxFiles : Respond(i)
    \/ \E i \in 1..MaxFiles : BackoffElapsed(i)
    \/ \E i \in 1..MaxFiles : PipelineReturns(i)
    \/ \E i \in 1..MaxFiles : FileSaved(i)
    \/ \E i \in 1..MaxFiles : FileSavedAgain(i)
    \/ GatherReturns
    \/ BuildExcel
    \/ StoreExcel
    \/ SetComplete
    \/ Download
    \/ ResponseSent

SpecBatch == InitBatch /\ [][NextBatch]_vars

\* the steps of run_batch itself
BatchStep == RunBatchStart \/ RunBatchSpawn \/ GatherReturns \/ BuildExcel \/ StoreExcel \/ SetComplete

\* the steps of the process_one task of document i
TaskStep(i) ==
    \/ Admit(i) \/ DocCallsRemote(i) \/ AcquirePermit(i) \/ Respond(i) \/ BackoffElapsed(i)
    \/ PipelineReturns(i) \/ FileSaved(i) \/ FileSavedAgain(i)

\* the batch on its own: download requests change nothing run_batch reads
NextRun == BatchStep \/ \E i \in 1..MaxFiles : TaskStep(i)

\* The event loop runs every task that is ready, every awaited thread call
\* and every request returns or raises (httpx has timeouts), and sleeps end.
SpecBatchFair ==
    /\ InitBatch
    /\ [][NextRun]_vars
    /\ WF_vars(BatchStep)
    /\ \A i \in 1..MaxFiles : WF_vars(TaskStep(i))

\* ---------------------------------------------------------------- SpecRemote
\* Concurrent extract_with_ai calls sharing the process-wide semaphore.
InitRemote ==
    /\ patient = _empty_patient
    /\ source = <<>>
    /\ nmerge = 0
    /\ IdlePipeline("remote")
    /\ IdleRemote(MaxCallers)
    /\ IdleBatch

NextRemote ==
    \/ \E k \in Callers : ExtractWithAI(k)
    \/ \E k \in Callers : AcquirePermit(k)
    \/ \E k \in Callers : Respond(k)
    \/ \E k \in Callers : BackoffElapsed(k)

SpecRemote == InitRemote /\ [][NextRemote]_vars

\* ---------------------------------------------------------------- SpecMerge
\* Any sequence of _merge_into_patient calls on one record.
InitMerge ==
    /\ patient = _empty_patient
    /\ source = <<>>
    /\ nmerge = 0
    /\ IdlePipeline("merge")
    /\ IdleRemote(MaxCallers)
    /\ IdleBatch

MergeCall ==
    /\ nmerge < MaxMerges
    /\ \E src \in TierOutputs :
          /\ source' = src
          /\ patient' = _merge_into_patient(patient, src)
    /\ nmerge' = nmerge + 1
    /\ UNCHANGED <<pipeVars, remoteVars, batchVars>>

NextMerge == MergeCall

SpecMerge == InitMerge /\ [][NextMerge]_vars

\* ---------------------------------------------------------------- SpecValidate
\* validate_and_clean applied to the raw records a caller can hand it.
\* What raw_data can hold under a numeric column
RawNumerics ==
    { None, <<"12.6">>, <<"<True>">>, <<"<list>">>, <<>>,
      <<"1", "2", ".", "6">>,
      <<"1", "2", ".", "6", " ", "L">>,
      <<"1", "2", ".", "6", "L">>,
      <<" ", "1", "2", ".", "6", " ", " ", "L", "o", "w", " ">>,
      <<"1", "2", " ", "h">>,
      <<".", "5", " ", "H", "i", "g", "h">>,
      <<"-", "1">>,
      <<"-", "1", " ", "L">>,
      <<"1", ".", "2", ".", "3", " ", "L">>,
      <<"a", "b", "c">>,
      Nested(<<"1", "2", ".", "6">>, <<"L">>),
      Nested(<<"12.6">>, <<"H", "i", "g", "h">>),
      Nested(<<"1", "2", ".", "6", " ", "L">>, <<"H">>),
      Nested(<<"12.6">>, None),
      <<"<dict>", "<value>", "1", "2">>,
      <<"<dict>", "<flag>", "H">> }

\* What raw_data can hold under a flag column
RawFlags ==
    { None, <<>>, <<"H">>, <<" ", "h", " ">>, <<"LOW">>, <<"L", "o", "w">>,
      <<"a", "b", "n">>, <<"<list>">>, <<"12.6">>, <<"<dict>", "<flag>", "H">> }

RawNames == { None, <<>>, <<" ">>, <<"Ravi Kumar">> }

RawNotes == { <<>>, <<"PARTIAL_OCR">> }

RawFilenames ==
    { Filename, <<"s", "c", "a", "n", ".", "P", "D", "F">>, <<"a", ".", "p", "d", "f", ".", "t", "x", "t">>,
      <<"p", "d", "f">> }

\* a dict with the keys whose value is not None; a key mapped to None reads
\* the same as a missing key (raw_data.get)
RawRecord(name, hb, hb_flag) ==
    SelectSeq(<< <<"PatientName", name>>, <<"Haemoglobin", hb>>,
                 <<"Haemoglobin_Flag", hb_flag>> >>,
              LAMBDA kv : kv[2] # None)

InitValidate ==
    /\ \E name \in RawNames, hb \in RawNumerics, hb_flag \in RawFlags :
          patient = RawRecord(name, hb, hb_flag)
    /\ source = <<>>
    /\ nmerge = 0
    /\ pc = "raw"
    /\ \E filename \in RawFilenames : file_status = [FileStatus EXCEPT !.filename = filename]
    /\ pages = <<>>
    /\ extraction_note \in RawNotes
    /\ page_i = 1
    /\ pending_ai = <<>>
    /\ null_fields_snapshot = <<>>
    /\ chunks = <<>>
    /\ chunk_st = <<>>
    /\ chunk_results = <<>>
    /\ calls = <<>>
    /\ merge_i = 1
    /\ openai_calls = <<>>
    /\ record = <<>>
    /\ IdleRemote(MaxCallers)
    /\ IdleBatch

Validate ==
    /\ pc = "raw"
    /\ record' = validate_and_clean(patient, file_status.filename, extraction_note)
    /\ pc' = "validated"
    /\ UNCHANGED <<patient, mergeVars, file_status, pages, extraction_note, page_i,
                   pending_ai, null_fields_snapshot, chunks, chunk_st, chunk_results,
                   calls, merge_i, openai_calls, remoteVars, batchVars>>

NextValidate == Validate

SpecValidate == InitValidate /\ [][NextValidate]_vars

\* ---------------------------------------------------------------- SpecPrune
\* The pipeline up to the start of its chunk calls, on documents whose text
\* pages differ in the aliases they hold: pages with 150 characters of text
\* that no pattern matches and one line with an alias of Haemoglobin, with an
\* alias of Urine_Colour, or with no alias; the page with two matches; and a
\* scanned page read below the recognition threshold.
PruneRawPages ==
    { RawPage(<<"<body>", "haemoglobin awaited">>, TRUE, <<>>, FALSE),
      RawPage(<<"<body>", "urine colour yellow">>, TRUE, <<>>, FALSE),
      RawPage(<<"<body>">> \o T_zero, TRUE, <<>>, FALSE),
      RawPage(<<"<body>">> \o T_one, TRUE, <<>>, FALSE),
      RawPage(<<>>, TRUE, T_three, FALSE) }

\* process_pdf returns the pages of such a document
ProcessPdfPrune ==
    /\ pc = "pdf"
    /\ \E n \in 1..MaxPages : \E raws \in [1..n -> PruneRawPages] :
          LET pdf_result == process_pdf(raws) IN
          /\ pages' = pdf_result.pages
          /\ extraction_note' = IF pdf_result.partial_ocr THEN <<"PARTIAL_OCR">> ELSE <<>>
    /\ pending_ai' = <<>>
    /\ page_i' = 1
    /\ pc' = "phase1"
    /\ UNCHANGED <<patient, mergeVars, remoteVars, batchVars, file_status, null_fields_snapshot, chunks,
                   chunk_st, chunk_results, calls, merge_i, openai_calls, record>>

NextPrune ==
    \/ StartFile
    \/ ProcessPdfPrune
    \/ Phase1Page
    \/ Snapshot
    \/ \E c \in 1..MaxPages : StartChunk(c)

SpecPrune == Init /\ [][NextPrune]_vars

\* ---------------------------------------------------------------- SpecRoute
\* The pipeline up to the start of its chunk calls, on documents that hold
\* every kind of page the classifier and the Phase 1 loop tell apart: text
\* pages with zero, one and two matches, scanned pages read above the
\* threshold with one and with zero matches, graph pages of the TMT, ECG and
\* generic categories, a graph keyword on a page of 154 characters, and a
\* graph keyword on a page of 305 characters.  The renderer returns the image
\* of every page it is asked for.
MaxRoutePages == 3

RouteRawPages ==
    { RawPage(<<"<body>">> \o T_zero, TRUE, <<>>, FALSE),
      RawPage(<<"<body>">> \o T_one, TRUE, <<>>, FALSE),
      RawPage(<<"<body>">> \o T_two, TRUE, <<>>, FALSE),
      RawPage(<<>>, TRUE, T_one, TRUE),
      RawPage(<<>>, TRUE, T_zero, TRUE),
      RawPage(T_tmt, TRUE, <<>>, FALSE),
      RawPage(<<"ecg">>, TRUE, <<>>, FALSE),
      RawPage(<<"waveform">>, TRUE, <<>>, FALSE),
      RawPage(<<"<body>", "tmt">>, TRUE, <<>>, FALSE),
      RawPage(<<"<body>", "<body>", "tmt">>, TRUE, <<>>, FALSE) }

\* process_pdf returns the pages of such a document
ProcessPdfRoute ==
    /\ pc = "pdf"
    /\ \E n \in 1..MaxRoutePages : \E raws \in [1..n -> RouteRawPages] :
          LET pdf_result == process_pdf(raws) IN
          /\ pages' = pdf_result.pages
          /\ extraction_note' = IF pdf_result.partial_ocr THEN <<"PARTIAL_OCR">> ELSE <<>>
    /\ pending_ai' = <<>>
    /\ page_i' = 1
    /\ pc' = "phase1"
    /\ UNCHANGED <<patient, mergeVars, remoteVars, batchVars, file_status, null_fields_snapshot, chunks,
                   chunk_st, chunk_results, calls, merge_i, openai_calls, record>>

NextRoute ==
    \/ StartFile
    \/ ProcessPdfRoute
    \/ Phase1Page
    \/ Snapshot
    \/ \E c \in 1..MaxRoutePages : StartChunk(c)

SpecRoute == Init /\ [][NextRoute]_vars

\* ---------------------------------------------------------------- SpecOrder
\* The pipeline of one document whose remote responses are fixed per chunk:
\* the response of a chunk depends on the chunk alone, and the calls of the
\* chunks complete in any order.  The responses of different chunks disagree
\* on Haemoglobin and on Remarks.
OrderRawPages ==
    { RawPage(<<"<body>">> \o T_zero, TRUE, <<>>, FALSE),
      RawPage(<<"<body>", "haemoglobin awaited">>, TRUE, <<>>, FALSE),
      RawPage(<<>>, TRUE, T_three, FALSE) }

FixedResponse(chunk) ==
    IF chunk.mode = "image"
    THEN IF chunk.pages[1] = 1
         THEN AIReturn(<< <<"Haemoglobin", <<"14.1">>>>, <<"Haemoglobin_Flag", <<"HIGH">>>>,
                          <<"Remarks", <<"o", "k">>>> >>, <<>>, 5, 2)
         ELSE AIReturn(<< <<"Remarks", <<"n", "o">>>>, <<"Haemoglobin", <<"13.0">>>> >>,
                       <<>>, 5, 2)
    ELSE CASE Len(chunk.pages) = 1 ->
                 AIReturn(<< <<"Haemoglobin", <<"13.0">>>>, <<"Remarks", <<"n", "o">>>> >>,
                          <<>>, 5, 2)
           [] Len(chunk.pages) = 2 -> AIReturn(<<>>, <<"API_ERROR">>, 0, 0)
           [] Len(chunk.pages) = 3 -> AIRaised
           [] OTHER -> AIReturn(<< <<"Remarks", <<"n", "o">>>> >>, <<>>, 5, 2)

\* process_pdf returns the pages of such a document
ProcessPdfOrder ==
    /\ pc = "pdf"
    /\ \E n \in 1..MaxPages : \E raws \in [1..n -> OrderRawPages] :
          LET pdf_result == process_pdf(raws) IN
          /\ pages' = pdf_result.pages
          /\ extraction_note' = IF pdf_result.partial_ocr THEN <<"PARTIAL_OCR">> ELSE <<>>
    /\ pending_ai' = <<>>
    /\ page_i' = 1
    /\ pc' = "phase1"
    /\ UNCHANGED <<patient, mergeVars, remoteVars, batchVars, file_status, null_fields_snapshot, chunks,
                   chunk_st, chunk_results, calls, merge_i, openai_calls, record>>

\* the awaited extract_with_ai of chunk c completes with the chunk's response
FinishChunkFixed(c) ==
    /\ pc = "gather"
    /\ c \in 1..Len(chunks)
    /\ chunk_st[c] = "inflight"
    /\ chunk_results' = StoreResult(chunk_results, c, FixedResponse(chunks[c]))
    /\ chunk_st' = [chunk_st EXCEPT ![c] = "done"]
    /\ UNCHANGED <<patient, mergeVars, remoteVars, batchVars, pc, file_status, pages, extraction_note, page_i,
                   pending_ai, null_fields_snapshot, chunks, calls, merge_i, openai_calls,
                   record>>

NextOrder ==
    \/ StartFile
    \/ ProcessPdfOrder
    \/ Phase1Page
    \/ Snapshot
    \/ \E c \in 1..MaxPages : StartChunk(c)
    \/ \E c \in 1..MaxPages : FinishChunkFixed(c)
    \/ MergeOutcome
    \/ Finish

SpecOrder == Init /\ [][NextOrder]_vars

\* ---------------------------------------------------------------- SpecLocks
\* run_batch up to the return of its gather, with both semaphores and with
\* the settings drawn from the positive values up to the deployment's: the
\* first document makes two concurrent chunk calls, every other document one.
MaxLockDocs == 2

\* the document whose pipeline made extract_with_ai call k
OwnerOf(k) == IF k = 1 THEN 1 ELSE k - 1

CallsOf(i) == {k \in DOMAIN aicall : OwnerOf(k) = i}

InitLocks ==
    /\ patient = _empty_patient
    /\ source = <<>>
    /\ nmerge = 0
    /\ IdlePipeline("batch")
    /\ \E permits \in 1..AI_CONCURRENCY : _ai_semaphore = permits
    /\ job = [in_store |-> TRUE, status |-> STATUS_PENDING, excel_bytes |-> NoExcel,
              excel_filename |-> "None"]
    /\ db_job = [status |-> STATUS_PENDING, excel_bytes |-> NoExcel, excel_filename |-> "None"]
    /\ \E n \in 1..MaxLockDocs :
          /\ job_files = [i \in 1..n |-> [FileStatus EXCEPT !.filename = UploadName(i)]]
          /\ db_files = db_create_job([i \in 1..n |-> UploadName(i)])
    /\ aicall = [k \in 1..(MaxLockDocs + 1) |-> IdleCall]
    /\ records = <<>>
    /\ semaphore = 0
    /\ task = <<>>
    /\ batch_pc = "queued"
    /\ response = NoResponse

\* run_batch lines 834-862 with the worker setting drawn
RunBatchSpawnLocks ==
    /\ batch_pc = "set_processing"
    /\ db_job' = [db_job EXCEPT !.status = STATUS_PROCESSING]
    /\ \E workers \in 1..MAX_CONCURRENT_EXTRACTIONS : semaphore' = workers
    /\ records' = [i \in Files |-> NoRecord]
    /\ task' = [i \in Files |-> [pc |-> "wait", kind |-> "none", raised |-> FALSE]]
    /\ batch_pc' = "gather"
    /\ UNCHANGED <<patient, mergeVars, pipeVars, remoteVars, job, db_files, job_files, response>>

\* _process_single_file Phase 2: a _call_chunk coroutine of the document
\* calls extract_with_ai
ChunkCallsRemote(k) ==
    /\ k \in DOMAIN aicall
    /\ OwnerOf(k) \in DOMAIN task
    /\ task[OwnerOf(k)].pc = "pipeline"
    /\ task[OwnerOf(k)].kind = "remote"
    /\ ExtractWithAI(k)

\* the result the merge loop takes the document's note from: a call that
\* ended in API_ERROR if there is one
NotedResult(i) ==
    IF \E k \in CallsOf(i) : aicall[k].result.ai_note = <<"API_ERROR">>
    THEN AIReturn(<<>>, <<"API_ERROR">>, 0, 0)
    ELSE NoResult

\* _process_single_file returns once gather has returned every chunk call
\* of the document; process_one stores the record and awaits db_update_file
PipelineReturnsLocks(i) ==
    /\ i \in DOMAIN task
    /\ task[i].pc = "pipeline"
    /\ task[i].kind = "remote" => \A k \in CallsOf(i) : aicall[k].pc = "returned"
    /\ LET fs == DocOutcome(job_files[i], task[i].kind, NotedResult(i)) IN
       /\ job_files' = [job_files EXCEPT ![i] = fs]
       /\ records' = [records EXCEPT ![i] = Record(i, fs.error_notes)]
    /\ task' = [task EXCEPT ![i] = [pc |-> "saving", kind |-> "none",
                                    raised |-> task[i].kind = "raise"]]
    /\ aicall' = [k \in DOMAIN aicall |->
                     IF OwnerOf(k) = i THEN [IdleCall EXCEPT !.pc = "closed"] ELSE aicall[k]]
    /\ UNCHANGED <<patient, mergeVars, pipeVars, _ai_semaphore, job, db_job, db_files, semaphore,
                   batch_pc, response>>

NextLocks ==
    \/ RunBatchStart
    \/ RunBatchSpawnLocks
    \/ \E i \in 1..MaxLockDocs : Admit(i)
    \/ \E k \in 1..(MaxLockDocs + 1) : ChunkCallsRemote(k)
    \/ \E k \in 1..(MaxLockDocs + 1) : AcquirePermit(k)
    \/ \E k \in 1..(MaxLockDocs + 1) : Respond(k)
    \/ \E k \in 1..(MaxLockDocs + 1) : BackoffElapsed(k)
    \/ \E i \in 1..MaxLockDocs : PipelineReturnsLocks(i)
    \/ \E i \in 1..MaxLockDocs : FileSaved(i)
    \/ \E i \in 1..MaxLockDocs : FileSavedAgain(i)
    \/ GatherReturns

SpecLocks == InitLocks /\ [][NextLocks]_vars

\* ---------------------------------------------------------------- SpecStore
\* run_batch on batches whose documents were uploaded under names drawn from
\* two: the names of two documents of a batch can be equal or differ.
OtherFilename == <<"s", "c", "a", "n", ".", "p", "d", "f">>

InitStore ==
    /\ patient = _empty_patient
    /\ source = <<>>
    /\ nmerge = 0
    /\ IdlePipeline("batch")
    /\ IdleRemote(MaxFiles)
    /\ job = [in_store |-> TRUE, status |-> STATUS_PENDING, excel_bytes |-> NoExcel,
              excel_filename |-> "None"]
    /\ db_job = [status |-> STATUS_PENDING, excel_bytes |-> NoExcel, excel_filename |-> "None"]
    /\ \E n \in 1..MaxFiles : \E filenames \in [1..n -> {Filename, OtherFilename}] :
          /\ job_files = [i \in 1..n |-> [FileStatus EXCEPT !.filename = filenames[i]]]
          /\ db_files = db_create_job(filenames)
    /\ records = <<>>
    /\ semaphore = 0
    /\ task = <<>>
    /\ batch_pc = "queued"
    /\ response = NoResponse

SpecStore == InitStore /\ [][NextRun]_vars

\* ---------------------------------------------------------------- claims
\* C1: once a non-narrative field of the record is non-null, no later
\* _merge_into_patient call changes its value, whatever the tier outputs and
\* their order.
C1_FirstWriterWins ==
    [][\A i \in 1..Len(patient) :
          (patient[i][1] \notin _NARRATIVE_FIELDS /\ patient[i][2] # None)
              => Get(patient', patient[i][1]) = patient[i][2]]_vars

\* C1 witness: a merge offered 14.1 for Haemoglobin after 12.6 had been written.
C1_Witness ==
    /\ Get(patient, "Haemoglobin") = <<"12.6">>
    /\ Get(source, "Haemoglobin") = <<"14.1">>
    /\ nmerge >= 2

\* C2: in every record state reachable by merges, a flag field is non-null
\* only if its paired value field is non-null.
C2_FlagNeverBeforeValue ==
    \A f \in {"Haemoglobin", "TLC"} :
        Get(patient, FlagCol(f)) # None => Get(patient, f) # None

\* index of the first " | " in s at or after position i, 0 if none
RECURSIVE FindSep(_, _)
FindSep(s, i) ==
    IF i + 2 > Len(s) THEN 0
    ELSE IF SubSeq(s, i, i + 2) = <<" ", "|", " ">> THEN i
    ELSE FindSep(s, i + 1)

\* the separator-joined parts of an accumulated narrative value
RECURSIVE Parts(_)
Parts(s) ==
    LET i == FindSep(s, 1) IN
    IF i = 0 THEN {s}
    ELSE {SubSeq(s, 1, i - 1)} \cup Parts(SubSeq(s, i + 3, Len(s)))

\* C3: a narrative field accumulates only distinct values: merging a value
\* equal, ignoring case and surrounding whitespace, to the whole field or to
\* one of its separator-joined parts leaves the field unchanged; a differing
\* value is appended after the separator.
C3_NarrativeDistinct ==
    [][\A f \in _NARRATIVE_FIELDS :
          LET old == Get(patient, f)
              v   == Get(source', f)
          IN (nmerge' = nmerge + 1 /\ old # None /\ v # None)
                 => IF \E part \in Parts(old) \cup {old} :
                           Lower(Strip(part)) = Lower(Strip(v))
                    THEN Get(patient', f) = old
                    ELSE Get(patient', f) = PipeJoin(old, v)]_vars


\* ---------------------------------------------------------------- the document pipeline
\* the deterministic match count the routing rule of a page looks at: the
\* page text of a text page, the recognised text of an image page when it is
\* above the confidence threshold
MatchCount(page) ==
    IF page.mode = "text" THEN count_regex_fields(extract_with_regex(page.raw_text))
    ELSE IF page.mode = "ocr" /\ page.ocr_text # <<>> /\ page.ocr_above_threshold
    THEN count_regex_fields(extract_with_regex(page.ocr_text))
    ELSE 0

PendingPages == {pending_ai[k][1] : k \in 1..Len(pending_ai)}

ChunkedPages == UNION {Range(chunks[c].pages) : c \in 1..Len(chunks)}

CalledPages == UNION {Range(calls[k].pages) : k \in 1..Len(calls)}

\* C4: a page whose deterministic match count is at least 3 is never queued
\* for the remote tier, never placed in a chunk and never sent in a remote call.
C4_StrictHandoff ==
    \A i \in 1..Len(pages) :
        MatchCount(pages[i]) >= 3 =>
            /\ i \notin PendingPages
            /\ i \notin ChunkedPages
            /\ i \notin CalledPages

\* a finished document with a three-match text page, a three-match image page
\* read above the threshold, and a remote call made for its other pages
C4_Witness ==
    /\ pc = "done"
    /\ calls # <<>>
    /\ \E i \in 1..Len(pages) :
          /\ pages[i].mode = "text" /\ MatchCount(pages[i]) >= 3
          /\ pages[i].handler = "REGEX_HANDLED"
    /\ \E i \in 1..Len(pages) :
          /\ pages[i].mode = "ocr" /\ MatchCount(pages[i]) >= 3
          /\ pages[i].handler = "OCR_HANDLED"

CeilDiv(n, d) == (n + d - 1) \div d

PendingOfMode(mode) == Len(SelectSeq(pending_ai, LAMBDA e : e[2] = mode))

CallsOfChunk(c) == Len(SelectSeq(calls, LAMBDA call : call.chunk = c))

HandlerTags ==
    {"GRAPH_PAGE", "REGEX_HANDLED", "OCR_HANDLED", "AI_HANDLED", "SKIPPED_NO_IMAGE",
     "SKIPPED_NO_NULLS"}

\* C7: when the pipeline of a document that process_pdf could read has
\* finished, every page carries one of the six handler tags.
C7_EveryPageTagged ==
    (pc = "done" /\ pages # <<>>) =>
        \A i \in 1..Len(pages) : pages[i].handler \in HandlerTags

\* C8: once a page has a handler, no later step changes it.
C8_HandlerAssignedOnce ==
    [][\A i \in 1..Len(pages) :
          pages[i].handler # "None" => pages'[i].handler = pages[i].handler]_vars

\* the fields of the record that are null, read off the record itself
NullNow == SelectSeq(_ALL_VALUE_FIELDS, LAMBDA col : Get(patient, col) = None)

\* C9: a remote call exists only after the last page has been through
\* Phase 1; every call asks for a subset of the snapshot; and the snapshot
\* is the list of fields that are null in the record when Phase 1 has ended
\* and nothing has been merged since.
C9_SingleSnapshot ==
    /\ calls # <<>> => (pc \in {"gather", "done"} /\ page_i > Len(pages))
    /\ \A k \in 1..Len(calls) : Range(calls[k].null_fields) \subseteq Range(null_fields_snapshot)
    /\ (pc = "gather" /\ merge_i = 1) => null_fields_snapshot = NullNow

\* a remote call is out, Phase 1 filled a field, and the call does not ask for it
C9_Witness ==
    /\ pc = "gather"
    /\ calls # <<>>
    /\ Get(patient, "Haemoglobin") # None
    /\ "Haemoglobin" \notin Range(calls[1].null_fields)
    /\ "Remarks" \in Range(calls[1].null_fields)

\* C10: a merge-loop iteration has run only when no chunk call of the
\* document is outstanding, and the iterations take the results one at a
\* time, in chunk order.
C10_MergeAfterAllCalls ==
    [][(pc = "gather" /\ merge_i' # merge_i) =>
          /\ \A c \in 1..Len(chunks) : chunk_st[c] = "done"
          /\ merge_i' = merge_i + 1
          /\ chunk_st' = chunk_st]_vars

\* two chunks, both calls finished, the first result merged, the second not yet
C10_Witness ==
    /\ pc = "gather"
    /\ Len(chunks) = 2
    /\ Len(calls) = 2
    /\ merge_i = 2
    /\ Get(patient, "Remarks") = <<"o", "k">>


\* ---------------------------------------------------------------- the remote tier
InFlight == {k \in Callers : aicall[k].pc = "request"}

\* C11: the number of remote requests in flight in the process never
\* exceeds AI_CONCURRENCY.
C11_InFlightBounded == Cardinality(InFlight) <= AI_CONCURRENCY

\* every permit is out and one more call waits for one
C11_Witness ==
    /\ Cardinality(InFlight) = AI_CONCURRENCY
    /\ \E k \in Callers : aicall[k].pc = "acquire"

\* C13: one call sends at most AI_MAX_RETRIES + 1 requests and never raises;
\* when every request it sent failed it returns an empty result with the
\* note API_ERROR.
C13_RetryBudget ==
    \A k \in Callers :
        /\ aicall[k].requests <= AI_MAX_RETRIES + 1
        /\ ~aicall[k].result.raised
        /\ (aicall[k].pc = "returned" /\ aicall[k].requests > 0
               /\ aicall[k].failures = aicall[k].requests)
              => /\ aicall[k].result.ai_result = <<>>
                 /\ aicall[k].result.ai_note = <<"API_ERROR">>

\* a call whose first request failed in transport, that backed off, whose
\* second request came back malformed, and that returned
C13_Witness ==
    \E k \in Callers :
        /\ aicall[k].pc = "returned"
        /\ aicall[k].requests = AI_MAX_RETRIES + 1
        /\ aicall[k].failures = AI_MAX_RETRIES + 1
        /\ aicall[k].backoffs = 1
        /\ aicall[k].last = "malformed"
        /\ aicall[k].result.ai_note = <<"API_ERROR">>

\* C14: a call made with an empty field list has returned, has sent no
\* request, has taken no permit, and its result is ({}, "", 0, 0).
C14_EmptyListNoRequest ==
    \A k \in Callers :
        (aicall[k].pc # "idle" /\ aicall[k].null_fields = <<>>) =>
            /\ aicall[k].pc = "returned"
            /\ aicall[k].requests = 0
            /\ aicall[k].acquired = 0
            /\ aicall[k].result = AIReturn(<<>>, <<>>, 0, 0)

\* a call with an empty list has returned while the other calls hold every permit
C14_Witness ==
    /\ _ai_semaphore = 0
    /\ \E k \in Callers :
          /\ aicall[k].pc = "returned"
          /\ aicall[k].null_fields = <<>>

\* C15: a remote call that succeeded is a success whatever its object
\* holds: its cost row is recorded as successful, and a document all of
\* whose calls succeeded gets no API_ERROR note and is not failed.
C15_EmptyObjectIsSuccess ==
    /\ \A r \in 1..Len(openai_calls) :
          (openai_calls[r].error_type = <<>> /\ openai_calls[r].input_tokens > 0)
              => openai_calls[r].success
    /\ (pc = "done" /\ pages # <<>>
           /\ \A c \in 1..Len(chunks) :
                 ~chunk_results[c].raised /\ chunk_results[c].ai_note = <<>>)
          => /\ ~NoteHas(extraction_note, "API_ERROR")
             /\ file_status.status = STATUS_DONE


\* ---------------------------------------------------------------- the batch
Running == {i \in DOMAIN task : task[i].pc \in {"pipeline", "saving", "saving_again"}}

Waiting == {i \in DOMAIN task : task[i].pc = "wait"}

\* C12: at most MAX_CONCURRENT_EXTRACTIONS documents of the batch are inside
\* the pipeline at once; every slot in use is a running document, so a
\* waiting document gets in only when a running one has ended.
C12_WorkerPoolBounded ==
    /\ Cardinality(Running) <= MAX_CONCURRENT_EXTRACTIONS
    /\ batch_pc = "gather" => semaphore = MAX_CONCURRENT_EXTRACTIONS - Cardinality(Running)

\* the pool is full and a document waits
C12_Witness ==
    /\ Cardinality(Running) = MAX_CONCURRENT_EXTRACTIONS
    /\ Waiting # {}

Terminal == {STATUS_DONE, STATUS_FAILED}

\* C16: no step of another document or of the batch changes a document's
\* status or record, and a document that is done or failed is changed only
\* by a step of its own that leaves it failed; when the batch is complete the
\* document whose pipeline raised is failed with an API_ERROR note, every
\* document is done or failed and has a record, and the artifact, when
\* built, holds the records of all documents.
C16_FaultIsolation ==
    /\ [][\A i \in DOMAIN task :
            (i \in DOMAIN task' /\ (job_files'[i] # job_files[i] \/ records'[i] # records[i]))
                => /\ task'[i] # task[i]
                   /\ job_files[i].status \in Terminal
                         => job_files'[i].status = STATUS_FAILED]_vars
    /\ [](job.status = STATUS_COMPLETE =>
            /\ \A i \in DOMAIN task :
                  /\ job_files[i].status \in Terminal
                  /\ records[i].file = i
                  /\ task[i].raised =>
                        /\ job_files[i].status = STATUS_FAILED
                        /\ NoteHas(job_files[i].error_notes, "API_ERROR")
                        /\ records[i].note = <<"API_ERROR">>
            /\ job.excel_bytes.present => job.excel_bytes.covers = DOMAIN task)

\* three documents: the first raised and is failed, the others are done, and
\* the workbook holds three records
C16_Witness ==
    /\ batch_pc = "finished"
    /\ Len(job_files) = 3
    /\ task[1].raised /\ job_files[1].status = STATUS_FAILED
    /\ ~task[2].raised /\ job_files[2].status = STATUS_DONE
    /\ ~task[3].raised /\ job_files[3].status = STATUS_DONE
    /\ db_job.excel_bytes = Excel({1, 2, 3})

StatusAdvance ==
    {<<STATUS_PENDING, STATUS_PROCESSING>>, <<STATUS_PROCESSING, STATUS_COMPLETE>>}

\* C17: while the batch status is complete every document is done or
\* failed, and the batch status (on the Job and in the jobs table) only
\* moves from pending to processing and from processing to complete.
C17_BatchLifecycle ==
    /\ []((job.status = STATUS_COMPLETE \/ db_job.status = STATUS_COMPLETE)
             => \A i \in 1..Len(job_files) : job_files[i].status \in Terminal)
    /\ [][/\ job'.status # job.status => <<job.status, job'.status>> \in StatusAdvance
          /\ db_job'.status # db_job.status
                => <<db_job.status, db_job'.status>> \in StatusAdvance]_vars

\* the Job has just been set complete, with a done and a failed document
C17_Witness ==
    /\ job.in_store
    /\ job.status = STATUS_COMPLETE
    /\ db_job.status = STATUS_PROCESSING
    /\ \E i \in 1..Len(job_files) : job_files[i].status = STATUS_DONE
    /\ \E i \in 1..Len(job_files) : job_files[i].status = STATUS_FAILED

Answered == response = NoResponse /\ response' # NoResponse

\* C19: once run_batch is past the artifact step with no artifact stored,
\* the batch is complete and a result request is answered with an error
\* and no bytes.
C19_ArtifactFailure ==
    [][(batch_pc \in {"set_complete", "finished"} /\ ~db_job.excel_bytes.present)
          => /\ job.status = STATUS_COMPLETE
             /\ Answered => (response'.code \in {404, 500} /\ ~response'.body.present)]_vars

\* the batch status and the artifact a request made now would be about
BatchStatusNow == IF job.in_store THEN job.status ELSE db_job.status

ArtifactNow == IF job.in_store THEN job.excel_bytes ELSE db_job.excel_bytes

\* C20: a result request is answered with bytes only when the batch is
\* complete and has an artifact, and then with that artifact; in every
\* other state, and for an unknown job, with an error code and no bytes.
C20_ResultOnlyWhenReady ==
    [][Answered =>
          IF response'.body.present
          THEN /\ response'.code = 200
               /\ BatchStatusNow = STATUS_COMPLETE
               /\ ArtifactNow.present
               /\ response'.body = ArtifactNow
          ELSE response'.code \in {404, 409, 500}]_vars

\* the workbook has been served after the batch finished
C20_Witness ==
    /\ batch_pc = "finished"
    /\ response.code = 200
    /\ response.body = Excel(DOMAIN task)
    /\ Len(job_files) = 2

\* what download_excel answers for the batch from the jobs table alone
DurableAnswer ==
    IF db_job.status # STATUS_COMPLETE THEN [code |-> 409, body |-> NoExcel]
    ELSE IF ~db_job.excel_bytes.present THEN [code |-> 500, body |-> NoExcel]
    ELSE [code |-> 200, body |-> db_job.excel_bytes]

FileAdvance ==
    { <<STATUS_PENDING, STATUS_PROCESSING>>, <<STATUS_PROCESSING, STATUS_DONE>>,
      <<STATUS_PROCESSING, STATUS_FAILED>>, <<STATUS_DONE, STATUS_FAILED>> }

\* C22: every change of a document's status is pending to processing,
\* processing to done, processing to failed, or done to failed.
C22_StatusForward ==
    [][\A i \in 1..Len(job_files) :
          job_files'[i].status # job_files[i].status
              => <<job_files[i].status, job_files'[i].status>> \in FileAdvance]_vars

\* one document is done; another came back from its pipeline, its
\* db_update_file raised and the handler of process_one marked it failed
C22_Witness ==
    \E i, j \in DOMAIN task :
        /\ task[i].pc = "finished" /\ job_files[i].status = STATUS_DONE
        /\ task[j].pc = "saving_again" /\ ~task[j].raised
        /\ job_files[j].status = STATUS_FAILED
        /\ job_files[j].error_notes = <<"API_ERROR">>

\* the keys of a record are the canonical columns, in their order
HasEveryColumn(rec) == [i \in 1..Len(rec) |-> rec[i][1]] = MASTER_COLUMNS

\* the step of _process_single_file that returns at the document-level error
PdfErrorReturn == pc = "pdf" /\ pc' = "done"

\* the step made no remote call, left the FileJob failed with the code in
\* its note, and produced a record with every column and the fallback name
ErrorOutcome ==
    /\ extraction_note' \in {<<"PDF_PASSWORD_PROTECTED">>, <<"PDF_CORRUPTED">>}
    /\ calls' = <<>> /\ openai_calls' = <<>> /\ aicall' = aicall
    /\ file_status'.status = STATUS_FAILED
    /\ NoteHas(file_status'.error_notes, extraction_note'[1])
    /\ HasEveryColumn(record')
    /\ Get(record', "PatientName")
          = SubSeq(file_status.filename, 1, Len(file_status.filename) - 4)

C24_KeysAndFlags ==
    pc = "validated" =>
        /\ HasEveryColumn(record)
        /\ \A col \in FLAG_FIELDS : Get(record, col) \in {<<"HIGH">>, <<"LOW">>, None}

\* a raw flag that is neither word came out null, next to a numeric value
C24_Witness ==
    /\ pc = "validated"
    /\ Get(patient, "Haemoglobin_Flag") = <<"a", "b", "n">>
    /\ Get(patient, "Haemoglobin") = <<"1", "2", ".", "6">>
    /\ Get(record, "Haemoglobin_Flag") = None
    /\ Get(record, "Haemoglobin") = <<"12.6">>

\* the raw value of a numeric column is a dict {value: v, flag: f}
IsNestedPair(val) == IsDict(val) /\ HasNested(val, "<value>") /\ HasNested(val, "<flag>")

\* C25 as stated: a raw {value: v, flag: f} under a numeric column with a
\* paired flag, and no flat flag, gives the column v coerced to a number and
\* the paired flag f normalised.
C25_NestedFlagKept ==
    LET val == Get(patient, "Haemoglobin") IN
    (pc = "validated" /\ IsNestedPair(val) /\ Get(patient, "Haemoglobin_Flag") = None)
        => /\ Get(record, "Haemoglobin")
                = _coerce_numeric(_strip_str(NestedGet(val, "<value>")))[1]
           /\ Get(record, "Haemoglobin_Flag")
                = _normalize_flag(NestedGet(val, "<flag>"))

\* the flag tokens of the claim
FlagTokens == { <<"L">>, <<"L", "o", "w">>, <<"H">>, <<"H", "i", "g", "h">> }

\* an unsigned decimal number: digits with at most one point
IsDecimal(s) ==
    /\ \A i \in 1..Len(s) : s[i] \in Digits \cup {"."}
    /\ FloatOf(s) # None

\* the ways to read s as a number followed by a flag token, blanks allowed
\* around them: <<number, token>>
NumberThenFlag(s) ==
    LET t == Strip(s) IN
    { nt \in { <<SubSeq(t, 1, k), tok>> : k \in 1..Len(t), tok \in FlagTokens } :
         /\ IsDecimal(nt[1])
         /\ Strip(SubSeq(t, Len(nt[1]) + 1, Len(t))) = nt[2] }

RasterizationFailed ==
    /\ \E i \in 1..Len(pages) : pages[i].mode # "graph"
    /\ \A i \in 1..Len(pages) : ~pages[i].image_base64

\* C27 as stated: when rasterization of the whole document fails, the
\* document ends failed with PDF_CORRUPTED and none of its pages reaches a
\* tier.
C27_RasterFailureIsFatal ==
    (pc = "done" /\ RasterizationFailed)
        => /\ file_status.status = STATUS_FAILED
           /\ NoteHas(file_status.error_notes, "PDF_CORRUPTED")
           /\ calls = <<>>
           /\ file_status.pages_regex_handled = 0
           /\ file_status.pages_ocr_handled = 0
           /\ file_status.pages_ai_handled = 0

\* ---------------------------------------------------------------- the chunk dispatcher
\* Phase 2 has built its chunks
ChunksBuilt == pc \in {"gather", "done"}

\* the places <<chunk, index>> at which page p stands in the chunks
PlacesOf(p) ==
    { ck \in UNION { {<<c, k>> : k \in 1..Len(chunks[c].pages)} : c \in 1..Len(chunks) } :
         chunks[ck[1]].pages[ck[2]] = p }

PlaceOf(p) == CHOOSE ck \in PlacesOf(p) : TRUE

AliasOnPage(field_name, p) ==
    \E j \in 1..Len(pages[p].raw_text) : field_name \in LineAliases(pages[p].raw_text[j])

\* sub is what remains of full after some of its members are dropped
IsOrderedSubset(sub, full) == sub = SelectSeq(full, LAMBDA f : f \in Range(sub))

\* C29: the field list sent for an image chunk is the whole null-field
\* snapshot; the list sent for a text chunk is an order-preserving subset of
\* the snapshot that keeps every field with no registered alias and every
\* field one of whose aliases occurs in the text of a page of the chunk, and
\* lacks a field only if the field has aliases and none of them occurs in
\* the text of any page of the chunk.
C29_PrunedFields ==
    \A k \in 1..Len(calls) :
        LET sent  == calls[k].null_fields
            chunk == chunks[calls[k].chunk]
        IN IF calls[k].mode = "image" THEN sent = null_fields_snapshot
           ELSE /\ IsOrderedSubset(sent, null_fields_snapshot)
                /\ \A f \in Range(null_fields_snapshot) :
                      /\ f \notin AliasedFields => f \in Range(sent)
                      /\ (\E i \in 1..Len(chunk.pages) : AliasOnPage(f, chunk.pages[i]))
                            => f \in Range(sent)
                      /\ f \notin Range(sent)
                            => /\ f \in AliasedFields
                               /\ \A i \in 1..Len(chunk.pages) : ~AliasOnPage(f, chunk.pages[i])

\* a text chunk of two pages was sent with Haemoglobin kept for an alias on
\* its second page only and TLC dropped, and an image chunk with the whole
\* snapshot
C29_Witness ==
    \E k, m \in 1..Len(calls) :
        /\ calls[k].mode = "text"
        /\ Len(chunks[calls[k].chunk].pages) = 2
        /\ ~AliasOnPage("Haemoglobin", chunks[calls[k].chunk].pages[1])
        /\ AliasOnPage("Haemoglobin", chunks[calls[k].chunk].pages[2])
        /\ "Haemoglobin" \in Range(calls[k].null_fields)
        /\ "TLC" \in Range(null_fields_snapshot)
        /\ "TLC" \notin Range(calls[k].null_fields)
        /\ "PFT" \in Range(calls[k].null_fields)
        /\ calls[m].mode = "image"
        /\ calls[m].null_fields = null_fields_snapshot

\* ---------------------------------------------------------------- the retry loop
\* the attempt of caller k failed in this step, with response resp
AttemptFailed(k, resp) ==
    /\ aicall[k].pc = "request"
    /\ aicall'[k].pc # "request"
    /\ aicall'[k].last = resp
    /\ aicall'[k].failures = aicall[k].failures + 1

\* C30: in the retry loop a response that is malformed JSON or JSON that is
\* not an object leads straight to the next attempt, with no backoff wait; an
\* HTTP or transport error leads to a backoff wait, after which the next
\* attempt follows; a failure of the final attempt returns API_ERROR with no
\* wait.
C30_BackoffByFailureKind ==
    [][\A k \in Callers :
          /\ \A resp \in {"malformed", "non_object"} :
                (AttemptFailed(k, resp) /\ aicall[k].attempt < AI_MAX_RETRIES)
                    => /\ aicall'[k].pc = "acquire"
                       /\ aicall'[k].attempt = aicall[k].attempt + 1
                       /\ aicall'[k].backoffs = aicall[k].backoffs
          /\ \A resp \in {"http_error", "transport"} :
                (AttemptFailed(k, resp) /\ aicall[k].attempt < AI_MAX_RETRIES)
                    => /\ aicall'[k].pc = "backoff"
                       /\ aicall'[k].attempt = aicall[k].attempt
                       /\ aicall'[k].backoffs = aicall[k].backoffs + 1
          /\ \A resp \in {"malformed", "non_object", "http_error", "transport"} :
                (AttemptFailed(k, resp) /\ aicall[k].attempt = AI_MAX_RETRIES)
                    => /\ aicall'[k].pc = "returned"
                       /\ aicall'[k].result.ai_note = <<"API_ERROR">>
                       /\ aicall'[k].backoffs = aicall[k].backoffs
          /\ (aicall[k].pc = "backoff" /\ aicall'[k] # aicall[k])
                => /\ aicall'[k].pc = "acquire"
                   /\ aicall'[k].attempt = aicall[k].attempt + 1
                   /\ aicall'[k].requests = aicall[k].requests]_vars

\* one caller goes to its second attempt after malformed JSON without having
\* waited, one is in its backoff wait after an HTTP error, and one returned
\* API_ERROR after a backoff and a transport error on its final attempt
C30_Witness ==
    \E a, b, c \in Callers :
        /\ aicall[a].pc = "acquire" /\ aicall[a].attempt = 1
        /\ aicall[a].last = "malformed" /\ aicall[a].backoffs = 0
        /\ aicall[b].pc = "backoff" /\ aicall[b].last = "http_error"
        /\ aicall[c].pc = "returned" /\ aicall[c].last = "transport"
        /\ aicall[c].failures = AI_MAX_RETRIES + 1
        /\ aicall[c].backoffs = AI_MAX_RETRIES

\* the text the deterministic tier reads on a page, and whether Phase 1 runs
\* the tier on it: every text page, and a scanned page whose recognised text
\* is non-empty and above the threshold
TierText(page) == IF page.mode = "ocr" THEN page.ocr_text ELSE page.raw_text

TierRuns(page) ==
    /\ ~page.is_graph_page
    /\ page.mode = "ocr" => (page.ocr_text # <<>> /\ page.ocr_above_threshold)

QueuedAs(page) == IF page.mode = "ocr" THEN "image" ELSE "text"

Phase1Step == pc = "phase1" /\ page_i <= Len(pages) /\ page_i' = page_i + 1

\* C31: a Phase 1 iteration on a page with match count 1 or 2 merges the
\* page's partial results into the record and appends the page to the pending
\* queue; on a page with match count 0 it appends the page and leaves the
\* record unchanged; and every field list passed to a remote call holds only
\* fields of the snapshot, which are the fields null in the record when
\* Phase 1 ended.
C31_PartialMergedAndQueued ==
    /\ [][Phase1Step /\ TierRuns(pages[page_i]) /\ MatchCount(pages[page_i]) < 3
            => /\ pending_ai' = Append(pending_ai, <<page_i, QueuedAs(pages[page_i])>>)
               /\ patient' = IF MatchCount(pages[page_i]) = 0 THEN patient
                              ELSE _merge_into_patient(
                                       patient, extract_with_regex(TierText(pages[page_i])))]_vars
    /\ [](pc = "gather"
            => /\ null_fields_snapshot = _get_null_fields(patient)
               /\ \A k \in 1..Len(calls) :
                     /\ Range(calls[k].null_fields) \subseteq Range(null_fields_snapshot)
                     /\ \A i \in Range(calls[k].pages) : <<i, calls[k].mode>> \in Range(pending_ai))

\* a document with a one-match text page, a two-match text page and a
\* zero-match scanned page, all three queued and asked for
C31_Witness ==
    /\ pc = "gather"
    /\ Len(pages) = 3
    /\ MatchCount(pages[1]) = 1 /\ MatchCount(pages[2]) = 2
    /\ pages[3].mode = "ocr" /\ TierRuns(pages[3]) /\ MatchCount(pages[3]) = 0
    /\ Get(patient, "TLC") # None
    /\ Len(pending_ai) = 3
    /\ Len(calls) = 2

\* C32: every page has the mode the length rule gives it (graph when the
\* text is shorter than GRAPH_PAGE_MAX_CHARS and holds a graph keyword, else
\* text when it has at least TEXT_MODE_MIN_CHARS characters, else the image
\* mode, which the code names "ocr"); a graph page is not rendered and is on
\* no remote call, and every other page is rendered.
C32_ModeByLengthRule ==
    /\ \A i \in 1..Len(pages) :
          /\ pages[i].mode =
                (IF pages[i].text_length < GRAPH_PAGE_MAX_CHARS
                    /\ detect_graph_page(pages[i].raw_text)[1] THEN "graph"
                 ELSE IF pages[i].text_length >= TEXT_MODE_MIN_CHARS THEN "text"
                 ELSE "ocr")
          /\ pages[i].text_length = TextLen(pages[i].raw_text)
          /\ pages[i].is_graph_page <=> pages[i].mode = "graph"
          /\ pages[i].image_base64 <=> pages[i].mode # "graph"
    /\ \A k \in 1..Len(calls) : \A i \in Range(calls[k].pages) : pages[i].mode # "graph"
    /\ \A k \in 1..Len(pending_ai) : pages[pending_ai[k][1]].mode # "graph"

\* a graph page of 154 characters, a page of 305 characters with a graph
\* keyword classified as text, and a scanned page, with remote calls issued
C32_Witness ==
    /\ pc = "gather"
    /\ Len(pages) = 3
    /\ pages[1].mode = "graph" /\ pages[1].text_length = 154
    /\ pages[2].mode = "text" /\ detect_graph_page(pages[2].raw_text)[1]
    /\ pages[3].mode = "ocr"
    /\ Len(calls) = 2

\* the entries of the record a step changes
ChangedEntries == {i \in 1..Len(patient) : patient'[i] # patient[i]}

\* C33: a Phase 1 iteration on a graph page changes at most one field of the
\* record; a field it changes is the presence field mapped to the page's
\* category, was null and becomes PRESENT; for the ECG and generic categories
\* the record is unchanged; and the graph-page counter grows by one in every
\* case.
C33_GraphMergeFrame ==
    [][Phase1Step /\ pages[page_i].is_graph_page
         => /\ Len(patient') = Len(patient)
            /\ Cardinality(ChangedEntries) <= 1
            /\ \A i \in ChangedEntries :
                  /\ patient[i][2] = None
                  /\ patient'[i] = <<patient[i][1], <<"PRESENT">>>>
                  /\ pages[page_i].graph_type = "TMT" /\ patient[i][1] = "PFT"
            /\ pages[page_i].graph_type \in {"ECG", "GRAPH"} => patient' = patient
            /\ file_status'.pages_graph_detected = file_status.pages_graph_detected + 1
            /\ pending_ai' = pending_ai]_vars

\* a document with a TMT page, a second TMT page and an ECG page, all three
\* counted, and PFT marked once
C33_Witness ==
    /\ pc = "phase1" /\ page_i = 4
    /\ pages[1].graph_type = "TMT" /\ pages[2].graph_type = "TMT"
    /\ pages[3].graph_type = "ECG"
    /\ Get(patient, "PFT") = <<"PRESENT">>
    /\ Get(patient, "Remarks") = None
    /\ file_status.pages_graph_detected = 3

\* the three codes the final status looks for
FailureCodes == {"API_ERROR", "PDF_CORRUPTED", "PDF_PASSWORD_PROTECTED"}

C35_FlagOnlyWithValue ==
    [][\A f \in {"Haemoglobin", "TLC"} :
          (nmerge' = nmerge + 1 /\ Get(patient, f) # None)
              => Get(patient', FlagCol(f)) = Get(patient, FlagCol(f))]_vars

\* the response chunk c gets: none when its coroutine returns without a call
ResponseOfChunk(c) ==
    IF ChunkSkipped(chunks[c]) \/ ChunkNullFields(chunks[c]) = <<>> THEN NoResult
    ELSE FixedResponse(chunks[c])

\* the responses merged one after the other in chunk construction order
RECURSIVE MergedInChunkOrder(_, _)
MergedInChunkOrder(p, c) ==
    IF c > Len(chunks) THEN p
    ELSE MergedInChunkOrder(
             IF ResponseOfChunk(c).ai_result # <<>>
             THEN _merge_into_patient(p, ResponseOfChunk(c).ai_result) ELSE p,
             c + 1)

\* image chunks first, then text chunks, page order within each
ChunkOrder ==
    /\ \A c \in 1..Len(chunks) : \A d \in 1..Len(chunks) :
          (c < d /\ chunks[d].mode = "image") => chunks[c].mode = "image"
    /\ \A c \in 1..Len(chunks) : \A d \in 1..Len(chunks) :
          (c < d /\ chunks[c].mode = chunks[d].mode)
              => chunks[c].pages[Len(chunks[c].pages)] < chunks[d].pages[1]
    /\ \A c \in 1..Len(chunks) : \A i \in 1..(Len(chunks[c].pages) - 1) :
          chunks[c].pages[i] < chunks[c].pages[i + 1]

\* C36: with the response of every chunk fixed, whatever the order in which
\* the chunk calls complete, the chunks stand in construction order (image
\* chunks first, then text chunks, pages ascending), every field that was
\* null in the snapshot ends with the value that merging the responses one
\* after the other in that order gives it, and the record is the validated
\* form of the merged record.
C36_OrderIndependent ==
    pc = "done" /\ Len(pages) > 0
        => /\ ChunkOrder
           /\ \A c \in 1..Len(chunks) : chunk_results[c] = ResponseOfChunk(c)
           /\ \A k \in 1..Len(null_fields_snapshot) :
                 Get(patient, null_fields_snapshot[k])
                    = Get(MergedInChunkOrder(_empty_patient, 1), null_fields_snapshot[k])
           /\ record = validate_and_clean(patient, file_status.filename, extraction_note)

\* a document of four scanned pages in two image chunks whose responses
\* disagree; the value and the narrative of the first chunk come first
C36_Witness ==
    /\ pc = "done"
    /\ Len(chunks) = 2
    /\ Len(calls) = 2
    /\ chunk_results[1].ai_result # <<>> /\ chunk_results[2].ai_result # <<>>
    /\ Get(chunk_results[1].ai_result, "Haemoglobin") # Get(chunk_results[2].ai_result, "Haemoglobin")
    /\ Get(patient, "Haemoglobin") = <<"14.1">>
    /\ Get(patient, "Remarks") = <<"o", "k", " ", "|", " ", "n", "o">>

\* C38: the permits out are exactly the calls with a request in flight: a
\* call that waits for a permit, sleeps in a backoff, has not started or has
\* returned holds none, and when no call is between its start and its return
\* every permit is free.
C38_PermitOnlyInFlight ==
    /\ _ai_semaphore + Cardinality(InFlight) = AI_CONCURRENCY
    /\ \A k \in Callers : aicall[k].acquired = aicall[k].requests
    /\ (\A k \in Callers : aicall[k].pc \in {"idle", "returned"})
          => _ai_semaphore = AI_CONCURRENCY

\* every call has ended, one of them after a failed request, a backoff and a
\* second failed request, another after an invalid response and a retry
C38_Witness ==
    /\ \A k \in Callers : aicall[k].pc = "returned"
    /\ _ai_semaphore = AI_CONCURRENCY
    /\ \E k \in Callers : aicall[k].backoffs = 1 /\ aicall[k].failures = 2
    /\ \E k \in Callers : aicall[k].backoffs = 0 /\ aicall[k].requests = 2

\* a process_one task that has ended
TaskEnded(i) == task[i].pc = "finished"

\* a chunk call that can take its next step only by getting a permit that
\* is not there
AwaitsPermit(k) == aicall[k].pc = "acquire" /\ _ai_semaphore <= 0

\* a task that can take no step: it waits for a worker slot and none is
\* free, or its pipeline waits for chunk calls, one of which has not
\* returned, and each of those waits for a permit
TaskBlocked(i) ==
    \/ task[i].pc = "wait" /\ semaphore <= 0
    \/ /\ task[i].pc = "pipeline" /\ task[i].kind = "remote"
       /\ \E k \in CallsOf(i) : aicall[k].pc # "returned"
       /\ \A k \in CallsOf(i) : aicall[k].pc = "returned" \/ AwaitsPermit(k)

\* C37: while run_batch waits for its tasks and a document is unfinished,
\* some unfinished task is not blocked on a worker slot or a permit, for
\* every worker setting and permit setting from 1 up.
C37_NoDeadlock ==
    (batch_pc = "gather" /\ \E i \in DOMAIN task : ~TaskEnded(i))
        => \E i \in DOMAIN task : ~TaskEnded(i) /\ ~TaskBlocked(i)

\* one worker slot and one permit: the first document holds the slot, one of
\* its two chunk calls holds the permit and the other waits for it, and the
\* second document waits for the slot
C37_Witness ==
    /\ batch_pc = "gather"
    /\ Len(job_files) = 2
    /\ semaphore = 0 /\ _ai_semaphore = 0
    /\ task[1].pc = "pipeline" /\ task[2].pc = "wait"
    /\ aicall[1].pc = "request" /\ aicall[2].pc = "acquire"
    /\ Cardinality(InFlight) = 1

\* C39: the artifact is written to the jobs table only while the table does
\* not show the batch complete and the Job is still in memory; once the table
\* shows complete the stored artifact no longer changes; the Job leaves
\* memory only when the table shows complete; and a reader who finds the
\* batch complete gets the stored artifact whenever one was stored.
C39_ArtifactBeforeComplete ==
    /\ [][db_job'.excel_bytes # db_job.excel_bytes
            => /\ db_job.status # STATUS_COMPLETE /\ db_job'.status # STATUS_COMPLETE
               /\ job.in_store /\ job'.in_store
               /\ db_job'.excel_bytes = job.excel_bytes]_vars
    /\ [][(job.in_store /\ ~job'.in_store) => db_job'.status = STATUS_COMPLETE]_vars
    /\ []((get_job("job").status = STATUS_COMPLETE /\ db_job.excel_bytes.present)
             => get_job("job").excel_bytes = db_job.excel_bytes)

\* the table shows the batch of two documents complete, the artifact with
\* both records is in the table and the Job has left memory
C39_Witness ==
    /\ db_job.status = STATUS_COMPLETE
    /\ ~job.in_store
    /\ Len(job_files) = 2
    /\ db_job.excel_bytes = Excel({1, 2})
    /\ get_job("job").excel_bytes = Excel({1, 2})

\* no pipeline of the batch raised and no db_update_file call failed: the
\* handler of process_one, which runs in both cases, has replaced no record
AllWritesSucceeded ==
    \A i \in DOMAIN task : ~task[i].raised /\ records[i].note # <<"API_ERROR">>

\* C40: once the jobs table shows the batch complete, the status and the
\* patient name of the k-th row of job_files, as db_get_files returns them,
\* are the status and the patient name of the k-th FileJob, for batches
\* whose documents have different names and for batches in which two
\* documents have the same name.
C40_StoreMatchesFileJobs ==
    (db_job.status = STATUS_COMPLETE /\ AllWritesSucceeded)
        => /\ Len(db_files) = Len(job_files)
           /\ \A k \in 1..Len(job_files) :
                 /\ db_files[k].filename = job_files[k].filename
                 /\ db_files[k].status = job_files[k].status
                 /\ db_files[k].patient_name = job_files[k].patient_name

====
